---- MODULE Spec2Model ----
(***************************************************************************)
(* Model of the CastCanvas API server (nazlul/Fa-Canvas).                  *)
(*                                                                         *)
(* The server is a Node.js process: every route handler is an async        *)
(* function that runs to completion between its awaits.  A request is      *)
(* therefore modelled as a slot holding the handler's position (the await  *)
(* it is suspended at) and each action is one synchronous stretch of the   *)
(* handler, from the await that resumes it to the next await or return.    *)
(*                                                                         *)
(*   src/src/app/api/canvas/route.ts   GET, POST /canvas      (l. 135-235) *)
(*   src/unnamed/part_001              GET, POST /canvas/purchase (1-112)  *)
(*   src/contracts/CastCanvas.sol      the CastCanvas contract             *)
(*                                                                         *)
(* A call of the contract is one transaction: it runs to its end or        *)
(* reverts, and a reverted call leaves the storage and the ether balance   *)
(* as they were.                                                           *)
(*                                                                         *)
(* JSON numbers are carried as a count of halves (Half == 2), so that 1    *)
(* is the number 0.5 and 2 is the number 1: the handler accepts any        *)
(* number in range and floors it.                                          *)
(***************************************************************************)
EXTENDS Integers, Sequences, FiniteSets, TLC

---------------------------------------------------------------------------
(* Program constants (~/lib/constants, mirrored in CastCanvas.sol).        *)

CANVAS_SIZE == 1000
DAILY_PIXEL_LIMIT == 5
PIXELS_PER_PURCHASE == 10
\* PRICE_PER_PURCHASE = 0.001 ether, in szabo (10^12 wei).
PRICE_PER_PURCHASE == 1000

\* Units of one JSON number: a value v stands for the number v / Half.
Half == 2

---------------------------------------------------------------------------
(* Bounds of the model.                                                    *)

\* The clock runs from 0 to MaxNow ticks.
MaxNow == 1
\* Requests that may be in flight (suspended at an await) at once.
MaxInFlight == 2
\* The pixel list is not grown beyond this length.
MaxPixels == 2
\* Purchase requests admitted while fewer than this many credits were made.
MaxCredits == 2

\* Clock ticks per calendar day.
TicksPerDay == 2

\* Payments the contract holds, and purchases a balance holds, at most.
MaxPayments == 1
\* The chain is followed from day 1 to day MaxDays.
MaxDays == 2
\* Calls of the contract nested within one transaction.
MaxDepth == 2
\* Async functions of the client running at once.
MaxCalls == 2

---------------------------------------------------------------------------
(* JSON values of a request body.                                          *)

\* A value is its typeof, its number (n, when a number) and its characters
\* (s, when a string): a string is the sequence of its characters.
Num(v) == [t |-> "number", n |-> v, s |-> <<>>]
Str(s) == [t |-> "string", n |-> 0, s |-> s]
Undefined == [t |-> "undefined", n |-> 0, s |-> <<>>]

\* typeof
TypeOf(val) == val.t

\* Math.floor on a number carried in halves.
Floor(v) == (v \div Half) * Half

HexDigits ==
  {"0", "1", "2", "3", "4", "5", "6", "7", "8", "9",
   "A", "B", "C", "D", "E", "F", "a", "b", "c", "d", "e", "f"}

\* /^#[0-9A-F]{6}$/i.test(color), color a sequence of characters.
IsHexColor(c) ==
  /\ Len(c) = 7
  /\ c[1] = "#"
  /\ \A i \in 2..7 : c[i] \in HexDigits

\* new Date().toDateString(): the calendar day of a clock value.
ToDateString(t) == t \div TicksPerDay

\* Lookup with a fault: a missing key reads as 1.
LookupOne(m, k) == IF k \in DOMAIN m THEN m[k] ELSE 1

\* userDailyPixels[userKey] || 0, and userPurchasedPixels[userKey] || 0
Lookup(m, k) == IF k \in DOMAIN m THEN m[k] ELSE 0

\* m[k] = v on a JavaScript object used as a map.
Store(m, k, v) == [j \in DOMAIN m \cup {k} |-> IF j = k THEN v ELSE m[j]]

\* DailyKey with a fault: the key leaves the user out.
DailyKeyOfDay(user, today) == <<<<>>, today>>

\* `${user}-${today}`
DailyKey(user, today) == <<user, today>>

---------------------------------------------------------------------------
(* Values of the chain.                                                    *)

\* Accounts: the deployer, who is the contract's owner (Ownable), a user,
\* and address(0).
Owner == "0xOwner"
Alice == "0xAlice"
ZeroAddress == "0x0"
Addresses == {Owner, Alice, ZeroAddress}

\* block.timestamp / 1 days, a day being TicksPerDay ticks.
BlockDay(timestamp) == timestamp \div TicksPerDay

\* A mapping(address => uint256) of a freshly deployed contract.
EmptyMapping == [a \in Addresses |-> 0]

\* The contract as deployed: lines 19-21, and address(this).balance.
Deployed ==
  [userPurchasedPixels |-> EmptyMapping,
   userDailyPixels |-> EmptyMapping,
   userLastResetDay |-> EmptyMapping,
   balance |-> 0]

\* A call of the contract: the function, msg.sender, the address argument
\* (ZeroAddress when there is none), msg.value in szabo, the pixels
\* argument, whether the call went through (FALSE: it reverted) and the
\* boolean it returned.
Call(fn, sender, user, value, pixels, ok, ret) ==
  [fn |-> fn, sender |-> sender, user |-> user, value |-> value,
   pixels |-> pixels, ok |-> ok, ret |-> ret]

NoCall == Call("none", ZeroAddress, ZeroAddress, 0, 0, TRUE, FALSE)

---------------------------------------------------------------------------
(* Values of the client  (src/src/hooks/useAuth.ts, src/src/lib/auth.ts).  *)

\* context?.user: a user of the Farcaster context with its fid, of which
\* username stands for the fields that are copied with it; NoUser when the
\* context or its user is undefined.  Fids are positive.
ContextUser(fid, username) == [fid |-> fid, username |-> username]

NoUser == ContextUser(0, "")

\* The hook's state (lines 84-88): user and error are the empty sequence
\* when null, and hold the one value otherwise.
AuthState(user, status, error) == [user |-> user, status |-> status, error |-> error]

\* What sdk.quickAuth.getToken() settles with: ok = FALSE when it rejects,
\* and token = "" when it resolves with no token.
GotToken(ok, token) == [ok |-> ok, token |-> token]

\* AuthConfig after the defaults of lines 90-95.
AuthConfig(requireQuickAuth, allowContextOnly) ==
  [requireQuickAuth |-> requireQuickAuth, allowContextOnly |-> allowContextOnly]

\* What a function of the client returns: the boolean of signIn as
\* success, and the AuthResult of authenticate (lines 27-41 of lib/auth.ts).
Result(success, user, error, usedQuickAuth) ==
  [success |-> success, user |-> user, error |-> error,
   usedQuickAuth |-> usedQuickAuth]

NoResult == Result(FALSE, <<>>, "", FALSE)

\* An async function of the client being run: the function, the await it
\* is at, the context.user and the config it holds, its locals token and
\* isValid, and what it returned once pc = "done".
ClientCall(fn, pc, contextUser, config, token, isValid, ret) ==
  [fn |-> fn, pc |-> pc, contextUser |-> contextUser, config |-> config,
   token |-> token, isValid |-> isValid, ret |-> ret]

IdleCall == ClientCall("idle", "idle", NoUser, AuthConfig(FALSE, TRUE), "", FALSE, NoResult)

CallSlots == 1..MaxCalls

---------------------------------------------------------------------------
(* State.                                                                  *)

VARIABLES
  now,                  \* the server's clock (Date.now()), in ticks
  canvasPixels,         \* canvas/route.ts: the pixel list
  userDailyPixels,      \* canvas/route.ts: `${user}-${today}` -> pixels placed
  userPurchasedPixels,  \* canvas/purchase/route.ts: `${user}-purchased` -> balance
  inflight,             \* the requests being served, one per slot
  placed,               \* history: successful placements per user and day
  credits,              \* history: per (user, transactionHash), the
                        \* totalPurchased of each credit made for it
  caught,               \* history: per slot, the error the purchase handler's
                        \* inner catch received (_error), "" when none
  castCanvas,           \* CastCanvas.sol: the contract's storage and ether
  blockTimestamp,       \* block.timestamp of the block being mined, in ticks
  lastCall,             \* history: the last call of the contract and its outcome
  frames,               \* the calls of the contract that wait for a transfer
                        \* they made to return, innermost last
  context,              \* the Farcaster context's user (useMiniApp, sdk.context)
  auth,                 \* useAuth.ts: the hook's state, user, status and error
  calls,                \* the client's async functions being run, one per slot
  effect                \* useAuth.ts: the effect of lines 177-179 is due

\* The API server's state and the chain's.
server ==
  <<now, canvasPixels, userDailyPixels, userPurchasedPixels, inflight,
    placed, credits, caught>>

onchain == <<castCanvas, blockTimestamp, lastCall, frames>>

\* The mini app in the client.
client == <<context, auth, calls, effect>>

vars == <<server, onchain, client>>

Slots == 1..MaxInFlight

\* A request body after request.json(); json = FALSE is a body that
\* request.json() rejects or that cannot be destructured.
CanvasBody(x, y, color, user) ==
  [json |-> TRUE, x |-> x, y |-> y, color |-> color, user |-> user,
   transactionHash |-> Undefined]

PurchaseBody(user, hash) ==
  [json |-> TRUE, x |-> Undefined, y |-> Undefined, color |-> Undefined,
   user |-> user, transactionHash |-> hash]

BadJson ==
  [json |-> FALSE, x |-> Undefined, y |-> Undefined, color |-> Undefined,
   user |-> Undefined, transactionHash |-> Undefined]

\* NextResponse.json(...): the fields the routes answer with.  pixel is the
\* empty sequence or the one pixel of the answer; a field a response does
\* not carry is -1, and <<>> for pixels.  The POST routes fill the first
\* five, the GET routes the others.
Response(status, error, pixel, remainingPixels, totalPurchased) ==
  [status |-> status, error |-> error, pixel |-> pixel,
   remainingPixels |-> remainingPixels, totalPurchased |-> totalPurchased,
   pixels |-> <<>>, totalPixels |-> -1, canvasSize |-> -1,
   usedPixels |-> -1, dailyLimit |-> -1]

NoResponse == Response(0, "", <<>>, -1, -1)

\* History kept with a request: the units its user had available (for a
\* repeated purchase: the user's purchased balance), and the day, when the
\* request arrived.
Seen(avail, day) == [avail |-> avail, day |-> day]

NoSeen == Seen(-1, -1)

Request(route, pc, body, res, seen) ==
  [route |-> route, pc |-> pc, body |-> body, res |-> res, seen |-> seen]

Idle == Request("idle", "idle", BadJson, NoResponse, NoSeen)

Init ==
  /\ now = 0
  /\ canvasPixels = <<>>
  /\ userDailyPixels = <<>>
  /\ userPurchasedPixels = <<>>
  /\ inflight = [s \in Slots |-> Idle]
  /\ placed = <<>>
  /\ credits = <<>>
  /\ caught = [s \in Slots |-> ""]
  /\ castCanvas = Deployed
  /\ blockTimestamp = TicksPerDay
  /\ lastCall = NoCall
  /\ frames = <<>>
  /\ context = NoUser
  /\ auth = AuthState(<<>>, "loading", <<>>)
  /\ calls = [a \in CallSlots |-> IdleCall]
  /\ effect = TRUE

\* A handler returns: the response is on its way and the slot is freed
\* when the client has it.
Return(s, res) ==
  inflight' = [inflight EXCEPT ![s] = Request(@.route, "done", @.body, res, @.seen)]

\* The client receives the response.
Respond(s) ==
  /\ inflight[s].pc = "done"
  /\ inflight' = [inflight EXCEPT ![s] = Idle]
  /\ caught' = [caught EXCEPT ![s] = ""]
  /\ UNCHANGED <<now, canvasPixels, userDailyPixels, userPurchasedPixels,
                 placed, credits>>

\* Time passes.
Tick(limit) ==
  /\ now < limit
  /\ now' = now + 1
  /\ UNCHANGED <<canvasPixels, userDailyPixels, userPurchasedPixels,
                 inflight, placed, credits, caught>>

---------------------------------------------------------------------------
(* POST /canvas  (src/src/app/api/canvas/route.ts, lines 165-228).         *)

\* line 170
InvalidParameters(b) ==
  \/ TypeOf(b.x) # "number"
  \/ TypeOf(b.y) # "number"
  \/ TypeOf(b.color) # "string"
  \/ TypeOf(b.user) # "string"

\* OutOfBounds with a fault: the upper bound compared with > for >=.
OutOfBoundsInclusive(x, y) ==
  \/ x < 0
  \/ x > CANVAS_SIZE * Half
  \/ y < 0
  \/ y > CANVAS_SIZE * Half

\* line 177, x and y in halves
OutOfBounds(x, y) ==
  \/ x < 0
  \/ x >= CANVAS_SIZE * Half
  \/ y < 0
  \/ y >= CANVAS_SIZE * Half

\* AvailablePixels with a fault: the pixel being placed is not counted.
AvailablePixelsPlusOne(userPixelsToday) == DAILY_PIXEL_LIMIT - userPixelsToday + 1

\* line 195
AvailablePixels(userPixelsToday) == DAILY_PIXEL_LIMIT - userPixelsToday

\* Used with a fault: the counter is written back as read.
UsedNotRaised(userPixelsToday) == userPixelsToday

\* line 215
Used(userPixelsToday) == userPixelsToday + 1

\* NoPixelsAvailable with a fault: < for <=.
NoPixelsAvailableBelowZero(availablePixels) == availablePixels < 0

\* line 197
NoPixelsAvailable(availablePixels) == availablePixels <= 0

\* NewPixel with a fault: the coordinates are stored as sent.
NewPixelAsSent(b, t) ==
  [x |-> b.x.n, y |-> b.y.n, color |-> b.color.s,
   timestamp |-> t, user |-> b.user.s]

\* lines 204-210
NewPixel(b, t) ==
  [x |-> Floor(b.x.n), y |-> Floor(b.y.n), color |-> b.color.s,
   timestamp |-> t, user |-> b.user.s]

\* line 212: canvasPixels.filter(pixel => !(pixel.x === x && pixel.y === y)),
\* x and y the numbers of the request
FilterOut(pixels, x, y) ==
  SelectSeq(pixels, LAMBDA pixel : ~(pixel.x = x /\ pixel.y = y))

\* PlacePixel with a fault: the pixel is pushed without the filter.
PlacePixelKeepsOld(pixels, b, t) == Append(pixels, NewPixel(b, t))

\* lines 212-213
PlacePixel(pixels, b, t) == Append(FilterOut(pixels, b.x.n, b.y.n), NewPixel(b, t))

\* A request arrives; the handler awaits request.json() (line 167).
CanvasReceive(s, b) ==
  /\ inflight[s] = Idle
  /\ inflight' = [inflight EXCEPT ![s] =
                    Request("canvas", "json", b, NoResponse,
                            IF b.json /\ TypeOf(b.user) = "string"
                            THEN Seen(AvailablePixels(
                                        Lookup(userDailyPixels,
                                               DailyKey(b.user.s, ToDateString(now)))),
                                      ToDateString(now))
                            ELSE NoSeen)]
  /\ UNCHANGED <<now, canvasPixels, userDailyPixels, userPurchasedPixels,
                 placed, credits, caught>>

\* request.json() settles and the handler runs to its return: lines 168-227.
CanvasPOST(s) ==
  /\ inflight[s].route = "canvas"
  /\ inflight[s].pc = "json"
  /\ LET b == inflight[s].body
         today == ToDateString(now)
         quiet == UNCHANGED <<canvasPixels, userDailyPixels, placed>>
     IN
     IF ~b.json
     THEN /\ Return(s, Response(500, "Failed to add pixel", <<>>, -1, -1))
          /\ quiet
     ELSE IF InvalidParameters(b)
     THEN /\ Return(s, Response(400, "Invalid input parameters", <<>>, -1, -1))
          /\ quiet
     ELSE IF OutOfBounds(b.x.n, b.y.n)
     THEN /\ Return(s, Response(400, "Coordinates out of bounds", <<>>, -1, -1))
          /\ quiet
     ELSE IF ~IsHexColor(b.color.s)
     THEN /\ Return(s, Response(400, "Invalid color format", <<>>, -1, -1))
          /\ quiet
     ELSE
       LET userKey == DailyKey(b.user.s, today)
           userPixelsToday == Lookup(userDailyPixels, userKey)
           availablePixels == AvailablePixels(userPixelsToday)
       IN
       IF NoPixelsAvailable(availablePixels)
       THEN /\ Return(s, Response(429, "No pixels available. Purchase more or wait for daily reset.", <<>>, -1, -1))
            /\ quiet
       ELSE /\ Len(PlacePixel(canvasPixels, b, now)) <= MaxPixels
            /\ canvasPixels' = PlacePixel(canvasPixels, b, now)
            /\ userDailyPixels' = Store(userDailyPixels, userKey, Used(userPixelsToday))
            /\ placed' = Store(placed, userKey, Lookup(placed, userKey) + 1)
            /\ Return(s, Response(200, "", <<NewPixel(b, now)>>,
                                  availablePixels - 1, -1))
  /\ UNCHANGED <<now, userPurchasedPixels, credits, caught>>

---------------------------------------------------------------------------
(* POST /canvas/purchase  (src/unnamed/part_001, lines 13-82).             *)

\* String.prototype.toLowerCase on the characters an address is made of.
LowerChar(c) ==
  CASE c = "A" -> "a"
    [] c = "B" -> "b"
    [] c = "C" -> "c"
    [] c = "D" -> "d"
    [] c = "E" -> "e"
    [] c = "F" -> "f"
    [] c = "X" -> "x"
    [] OTHER -> c

ToLowerCase(str) == [i \in 1..Len(str) |-> LowerChar(str[i])]

\* ~/lib/constants: the address payments are sent to (checksum case).
PAYMENT_WALLET == <<"0", "x", "A", "b", "C", "1">>

\* Transaction hashes a client may submit.
HPaid == <<"0", "x", "0", "1">>
HPaid2 == <<"0", "x", "0", "2">>
HOther == <<"0", "x", "0", "3">>
HCheap == <<"0", "x", "0", "4">>
HReverted == <<"0", "x", "0", "5">>
HUnknown == <<"0", "x", "0", "6">>

\* The chain: what publicClient.getTransaction resolves to for a hash
\* (found = FALSE: TransactionNotFoundError).  to is the recipient as the
\* node spells it, value is in szabo.
ChainTransaction(hash) ==
  CASE hash = HPaid ->
         [found |-> TRUE, to |-> <<"0", "x", "a", "b", "c", "1">>, value |-> PRICE_PER_PURCHASE]
    [] hash = HPaid2 ->
         [found |-> TRUE, to |-> <<"0", "X", "A", "B", "C", "1">>, value |-> PRICE_PER_PURCHASE]
    [] hash = HOther ->
         [found |-> TRUE, to |-> <<"0", "x", "a", "b", "c", "2">>, value |-> PRICE_PER_PURCHASE]
    [] hash = HCheap ->
         [found |-> TRUE, to |-> <<"0", "x", "a", "b", "c", "1">>, value |-> PRICE_PER_PURCHASE - 1]
    [] hash = HReverted ->
         [found |-> TRUE, to |-> <<"0", "x", "a", "b", "c", "1">>, value |-> PRICE_PER_PURCHASE]
    [] OTHER ->
         [found |-> FALSE, to |-> <<>>, value |-> 0]

\* What publicClient.getTransactionReceipt resolves to.
ChainReceipt(hash) ==
  CASE hash \in {HPaid, HPaid2, HOther, HCheap} -> [found |-> TRUE, status |-> "success"]
    [] hash = HReverted -> [found |-> TRUE, status |-> "reverted"]
    [] OTHER -> [found |-> FALSE, status |-> ""]

\* !value
Falsy(val) ==
  \/ TypeOf(val) = "undefined"
  \/ TypeOf(val) = "string" /\ val.s = <<>>
  \/ TypeOf(val) = "number" /\ val.n = 0

\* line 30
InvalidRecipient(transaction) ==
  ToLowerCase(transaction.to) # ToLowerCase(PAYMENT_WALLET)

\* IncorrectAmount with a fault: only an overpayment is refused.
AmountAbovePrice(transaction) == transaction.value > PRICE_PER_PURCHASE

\* line 37: parseEther(PRICE_PER_PURCHASE.toString()), in szabo
IncorrectAmount(transaction) == transaction.value # PRICE_PER_PURCHASE

\* line 48
TransactionFailed(receipt) == receipt.status # "success"

\* `${user}-purchased`
PurchasedKey(user) == <<user, "purchased">>

\* Credited with a fault: the balance read is dropped.
CreditedAfresh(currentPurchased) == PIXELS_PER_PURCHASE

\* line 57
Credited(currentPurchased) == currentPurchased + PIXELS_PER_PURCHASE

\* Credits made so far, and purchase requests being served.
CreditsMade ==
  LET RECURSIVE Sum(_)
      Sum(K) == IF K = {} THEN 0
                ELSE LET k == CHOOSE j \in K : TRUE
                     IN Len(credits[k]) + Sum(K \ {k})
  IN Sum(DOMAIN credits)

PurchasesInFlight ==
  Cardinality({s \in Slots : inflight[s].route = "purchase" /\ inflight[s].pc # "done"})

\* A request arrives; the handler awaits request.json() (line 15).
PurchaseReceive(s, b) ==
  /\ inflight[s] = Idle
  /\ CreditsMade + PurchasesInFlight < MaxCredits
  /\ inflight' = [inflight EXCEPT ![s] =
                    Request("purchase", "json", b, NoResponse, NoSeen)]
  /\ UNCHANGED <<now, canvasPixels, userDailyPixels, userPurchasedPixels,
                 placed, credits, caught>>

\* A request arrives that repeats one the server is still verifying (it is
\* suspended at getTransaction or getTransactionReceipt); the request keeps
\* the balance its user had at that moment.
PurchaseRetry(s, b) ==
  /\ inflight[s] = Idle
  /\ CreditsMade + PurchasesInFlight < MaxCredits
  /\ \E r \in Slots :
       /\ inflight[r].route = "purchase"
       /\ inflight[r].pc \in {"tx", "receipt"}
       /\ inflight[r].body = b
  /\ inflight' = [inflight EXCEPT ![s] =
                    Request("purchase", "json", b, NoResponse,
                            Seen(Lookup(userPurchasedPixels, PurchasedKey(b.user.s)),
                                 ToDateString(now)))]
  /\ UNCHANGED <<now, canvasPixels, userDailyPixels, userPurchasedPixels,
                 placed, credits, caught>>

\* request.json() settles: lines 16-28, up to the await of getTransaction.
PurchaseJson(s) ==
  /\ inflight[s].route = "purchase"
  /\ inflight[s].pc = "json"
  /\ LET b == inflight[s].body IN
     IF ~b.json
     THEN Return(s, Response(500, "Failed to process purchase", <<>>, -1, -1))
     ELSE IF Falsy(b.user) \/ Falsy(b.transactionHash)
     THEN Return(s, Response(400, "User and transaction hash are required", <<>>, -1, -1))
     ELSE inflight' = [inflight EXCEPT ![s].pc = "tx"]
  /\ UNCHANGED <<now, canvasPixels, userDailyPixels, userPurchasedPixels,
                 placed, credits, caught>>

\* getTransaction settles: lines 26-46, up to the await of
\* getTransactionReceipt.  rpc = FALSE is a call the RPC node fails.
PurchaseTx(s, rpc) ==
  /\ inflight[s].route = "purchase"
  /\ inflight[s].pc = "tx"
  /\ LET transaction == ChainTransaction(inflight[s].body.transactionHash.s) IN
     IF ~rpc \/ ~transaction.found
     THEN /\ Return(s, Response(500, "Failed to verify transaction", <<>>, -1, -1))
          /\ caught' = [caught EXCEPT ![s] =
                          IF ~rpc THEN "HttpRequestError" ELSE "TransactionNotFoundError"]
     ELSE /\ IF InvalidRecipient(transaction)
             THEN Return(s, Response(400, "Invalid recipient address", <<>>, -1, -1))
             ELSE IF IncorrectAmount(transaction)
             THEN Return(s, Response(400, "Incorrect payment amount", <<>>, -1, -1))
             ELSE inflight' = [inflight EXCEPT ![s].pc = "receipt"]
          /\ UNCHANGED caught
  /\ UNCHANGED <<now, canvasPixels, userDailyPixels, userPurchasedPixels,
                 placed, credits>>

\* getTransactionReceipt settles: lines 44-74.
PurchaseReceipt(s, rpc) ==
  /\ inflight[s].route = "purchase"
  /\ inflight[s].pc = "receipt"
  /\ LET b == inflight[s].body
         receipt == ChainReceipt(b.transactionHash.s)
         userKey == PurchasedKey(b.user.s)
         currentPurchased == Lookup(userPurchasedPixels, userKey)
         proof == <<b.user.s, b.transactionHash.s>>
     IN
     IF ~rpc \/ ~receipt.found
     THEN /\ Return(s, Response(500, "Failed to verify transaction", <<>>, -1, -1))
          /\ caught' = [caught EXCEPT ![s] =
                          IF ~rpc THEN "HttpRequestError"
                          ELSE "TransactionReceiptNotFoundError"]
          /\ UNCHANGED <<userPurchasedPixels, credits>>
     ELSE IF TransactionFailed(receipt)
     THEN /\ Return(s, Response(400, "Transaction failed", <<>>, -1, -1))
          /\ UNCHANGED <<userPurchasedPixels, credits, caught>>
     ELSE /\ UNCHANGED caught
          /\ userPurchasedPixels' =
               Store(userPurchasedPixels, userKey, Credited(currentPurchased))
          /\ credits' =
               Store(credits, proof,
                     Append(IF proof \in DOMAIN credits THEN credits[proof] ELSE <<>>,
                            Credited(currentPurchased)))
          /\ Return(s, Response(200, "", <<>>, -1, Credited(currentPurchased)))
  /\ UNCHANGED <<now, canvasPixels, userDailyPixels, placed>>

---------------------------------------------------------------------------
(* GET /canvas  (src/src/app/api/canvas/route.ts, lines 149-163).          *)

\* TotalPixels with a fault: the cells of the canvas are counted.
TotalPixelsOfCanvas(pixels) == CANVAS_SIZE * CANVAS_SIZE

\* line 154: canvasPixels.length
TotalPixels(pixels) == Len(pixels)

\* lines 149-163.  The handler awaits nothing: it runs from the arrival of
\* the request to its return, and NextResponse.json serialises the list as
\* it is then.
CanvasGET(s) ==
  /\ inflight[s] = Idle
  /\ inflight' =
       [inflight EXCEPT ![s] =
          Request("canvas-get", "done", BadJson,
                  [Response(200, "", <<>>, -1, -1) EXCEPT
                     !.pixels = canvasPixels,
                     !.totalPixels = TotalPixels(canvasPixels),
                     !.canvasSize = CANVAS_SIZE],
                  NoSeen)]
  /\ UNCHANGED <<now, canvasPixels, userDailyPixels, userPurchasedPixels,
                 placed, credits, caught>>

---------------------------------------------------------------------------
(* GET /canvas/user  (src/unnamed/part_003, lines 6-35).                   *)

\* line 4: the userDailyPixels of this route's module, a map of its own
\* that no code writes.
userRouteDailyPixels == <<>>

\* The query of a GET /canvas/user: searchParams.get('address'), Undefined
\* standing for null.
UserQuery(address) == [BadJson EXCEPT !.user = address]

\* Math.max(0, v)
MaxZero(v) == IF v < 0 THEN 0 ELSE v

\* lines 6-35.  The handler awaits nothing.
UserGET(s, address) ==
  /\ inflight[s] = Idle
  /\ LET today == ToDateString(now)
         userKey == DailyKey(address.s, today)
         userPixelsToday == Lookup(userRouteDailyPixels, userKey)
         remainingPixels == DAILY_PIXEL_LIMIT - userPixelsToday
     IN inflight' =
          [inflight EXCEPT ![s] =
             Request("user-get", "done", UserQuery(address),
                     IF Falsy(address)
                     THEN Response(400, "Address parameter is required", <<>>, -1, -1)
                     ELSE [Response(200, "", <<>>, MaxZero(remainingPixels), -1) EXCEPT
                             !.usedPixels = userPixelsToday,
                             !.dailyLimit = DAILY_PIXEL_LIMIT],
                     NoSeen)]
  /\ UNCHANGED <<now, canvasPixels, userDailyPixels, userPurchasedPixels,
                 placed, credits, caught>>

---------------------------------------------------------------------------
(* The CastCanvas contract  (src/contracts/CastCanvas.sol).                *)
(* Balances stay far below 2^256 within the bounds of the model, so the    *)
(* checked additions of Solidity 0.8 never revert here.                    *)

\* OnlyOwner with a fault: any account passes.
AnyAccount(sender) == sender # ZeroAddress

\* onlyOwner (Ownable): the caller is owner(), the deployer.
OnlyOwner(sender) == sender = Owner

\* IncorrectPayment with a fault: an overpayment is taken.
PaymentBelowPrice(value) == value < PRICE_PER_PURCHASE

\* line 25, negated
IncorrectPayment(value) == value # PRICE_PER_PURCHASE

\* GetDailyPixels with a fault: the allotment is never granted.
GetDailyPixelsNone(c, timestamp, user) == 0

\* GetDailyPixels with a fault: > for <, so that a new day brings nothing.
GetDailyPixelsNoRollover(c, timestamp, user) ==
  LET today == BlockDay(timestamp)
      lastReset == c.userLastResetDay[user]
  IN IF lastReset > today THEN DAILY_PIXEL_LIMIT ELSE c.userDailyPixels[user]

\* lines 50-59: getDailyPixels(user) on storage c at block.timestamp
GetDailyPixels(c, timestamp, user) ==
  LET today == BlockDay(timestamp)
      lastReset == c.userLastResetDay[user]
  IN IF lastReset < today THEN DAILY_PIXEL_LIMIT ELSE c.userDailyPixels[user]

\* GetAvailablePixels with a fault: the stored daily count is read.
GetAvailablePixelsStored(c, timestamp, user) ==
  LET purchased == c.userPurchasedPixels[user]
      daily == c.userDailyPixels[user]
  IN purchased + daily

\* lines 43-47: getAvailablePixels(user)
GetAvailablePixels(c, timestamp, user) ==
  LET purchased == c.userPurchasedPixels[user]
      daily == GetDailyPixels(c, timestamp, user)
  IN purchased + daily

\* Ether is taken while the contract holds less than MaxPayments payments,
\* and a balance is raised up to MaxPayments purchases.
Affordable(user, pixels, value) ==
  /\ value > 0 => castCanvas.balance < MaxPayments * PRICE_PER_PURCHASE
  /\ castCanvas.userPurchasedPixels[user] + pixels <= MaxPayments * PIXELS_PER_PURCHASE

\* A call reverts: the storage and the ether stay as they were.
Revert(fn, sender, user, value, pixels) ==
  /\ lastCall' = Call(fn, sender, user, value, pixels, FALSE, FALSE)
  /\ UNCHANGED castCanvas

\* A call of the contract that has made a transfer and waits for it to
\* return: the function, msg.sender, the address argument, the recipient
\* that has control, and the storage and ether at entry, which a revert
\* restores.
Frame(fn, sender, user, to, saved) ==
  [fn |-> fn, sender |-> sender, user |-> user, to |-> to, saved |-> saved]

\* nonReentrant (ReentrancyGuard), line 24: the guard is taken while a
\* function that bears the modifier is executing.
Entered == \E i \in 1..Len(frames) : frames[i].fn = "purchasePixels"

\* purchasePixels with a fault: the payment is forwarded to owner() by a
\* call before the pixels are credited.
purchasePixelsForwarding(sender, value) ==
  /\ IF IncorrectPayment(value) \/ sender = ZeroAddress \/ Entered
     THEN Revert("purchasePixels", sender, ZeroAddress, value, 0) /\ UNCHANGED frames
     ELSE /\ Affordable(sender, PIXELS_PER_PURCHASE, value)
          /\ Len(frames) < MaxDepth
          /\ UNCHANGED castCanvas
          /\ frames' = Append(frames, Frame("purchasePixels", sender, ZeroAddress,
                                            Owner, castCanvas))
          /\ lastCall' = Call("purchasePixels", sender, ZeroAddress, value, 0, TRUE, FALSE)
  /\ UNCHANGED blockTimestamp

\* lines 24-33; the function makes no call, so that it runs to its end
purchasePixels(sender, value) ==
  /\ IF IncorrectPayment(value) \/ sender = ZeroAddress \/ Entered
     THEN Revert("purchasePixels", sender, ZeroAddress, value, 0)
     ELSE /\ Affordable(sender, PIXELS_PER_PURCHASE, value)
          /\ castCanvas' =
               [castCanvas EXCEPT
                  !.userPurchasedPixels[sender] = @ + PIXELS_PER_PURCHASE,
                  !.balance = @ + value]
          /\ lastCall' = Call("purchasePixels", sender, ZeroAddress, value, 0, TRUE, FALSE)
  /\ UNCHANGED <<blockTimestamp, frames>>

\* lines 36-40
addPixelsToUser(sender, user, pixels) ==
  /\ IF ~OnlyOwner(sender) \/ user = ZeroAddress
     THEN Revert("addPixelsToUser", sender, user, 0, pixels)
     ELSE /\ Affordable(user, pixels, 0)
          /\ castCanvas' = [castCanvas EXCEPT !.userPurchasedPixels[user] = @ + pixels]
          /\ lastCall' = Call("addPixelsToUser", sender, user, 0, pixels, TRUE, FALSE)
  /\ UNCHANGED <<blockTimestamp, frames>>

\* UseDaily with a fault: the day's count is not lowered.
UseDailyKept(dailyPixels) == dailyPixels

\* UseDaily with a fault: the day's count is raised.
UseDailyRaised(dailyPixels) == dailyPixels + 1

\* line 67
UseDaily(dailyPixels) == dailyPixels - 1

\* ResetDay with a fault: the reset is dated the day before.
ResetDayBefore(timestamp) == BlockDay(timestamp) - 1

\* ResetDay with a fault: the reset is dated the day after.
ResetDayAfter(timestamp) == BlockDay(timestamp) + 1

\* lines 68-69 and 82, 87: the day a reset is dated
ResetDay(timestamp) == BlockDay(timestamp)

\* lines 62-78
usePixel(sender, user) ==
  /\ IF ~OnlyOwner(sender)
     THEN Revert("usePixel", sender, user, 0, 0)
     ELSE LET dailyPixels == GetDailyPixels(castCanvas, blockTimestamp, user) IN
          IF dailyPixels > 0
          THEN /\ castCanvas' =
                    [castCanvas EXCEPT
                       !.userDailyPixels[user] = UseDaily(dailyPixels),
                       !.userLastResetDay[user] = ResetDay(blockTimestamp)]
               /\ lastCall' = Call("usePixel", sender, user, 0, 0, TRUE, TRUE)
          ELSE IF castCanvas.userPurchasedPixels[user] > 0
          THEN /\ castCanvas' = [castCanvas EXCEPT !.userPurchasedPixels[user] = @ - 1]
               /\ lastCall' = Call("usePixel", sender, user, 0, 0, TRUE, TRUE)
          ELSE /\ UNCHANGED castCanvas
               /\ lastCall' = Call("usePixel", sender, user, 0, 0, TRUE, FALSE)
  /\ UNCHANGED <<blockTimestamp, frames>>

\* lines 81-90
resetDailyPixels(sender, user) ==
  /\ IF ~OnlyOwner(sender)
     THEN Revert("resetDailyPixels", sender, user, 0, 0)
     ELSE LET today == BlockDay(blockTimestamp)
              lastReset == castCanvas.userLastResetDay[user]
          IN
          /\ IF lastReset < today
             THEN castCanvas' =
                    [castCanvas EXCEPT
                       !.userDailyPixels[user] = DAILY_PIXEL_LIMIT,
                       !.userLastResetDay[user] = ResetDay(blockTimestamp)]
             ELSE UNCHANGED castCanvas
          /\ lastCall' = Call("resetDailyPixels", sender, user, 0, 0, TRUE, FALSE)
  /\ UNCHANGED <<blockTimestamp, frames>>

\* lines 93-99; success is the outcome of the transfer to owner()
withdraw(sender, success) ==
  /\ IF ~OnlyOwner(sender) \/ ~(castCanvas.balance > 0) \/ ~success
     THEN Revert("withdraw", sender, ZeroAddress, 0, 0)
     ELSE /\ castCanvas' = [castCanvas EXCEPT !.balance = 0]
          /\ lastCall' = Call("withdraw", sender, ZeroAddress, 0, 0, TRUE, FALSE)
  /\ UNCHANGED <<blockTimestamp, frames>>

\* lines 102-109; success is the outcome of the transfer to recipient
emergencyWithdraw(sender, recipient, success) ==
  /\ IF \/ ~OnlyOwner(sender)
        \/ ~(castCanvas.balance > 0)
        \/ recipient = ZeroAddress
        \/ ~success
     THEN Revert("emergencyWithdraw", sender, recipient, 0, 0)
     ELSE /\ castCanvas' = [castCanvas EXCEPT !.balance = 0]
          /\ lastCall' = Call("emergencyWithdraw", sender, recipient, 0, 0, TRUE, FALSE)
  /\ UNCHANGED <<blockTimestamp, frames>>

\* A function that passed its checks transfers the contract's ether to the
\* recipient by a call (lines 97 and 107) and waits for it with the
\* recipient in control.
CallOut(fn, sender, user, to) ==
  /\ Len(frames) < MaxDepth
  /\ castCanvas' = [castCanvas EXCEPT !.balance = 0]
  /\ frames' = Append(frames, Frame(fn, sender, user, to, castCanvas))
  /\ lastCall' = Call(fn, sender, user, 0, 0, TRUE, FALSE)

\* The transfer of the innermost waiting call returns (lines 98 and 108):
\* on failure the call reverts with all that was done within it.
CallBack(fn, success) ==
  /\ frames # <<>>
  /\ LET top == frames[Len(frames)] IN
     /\ top.fn = fn
     /\ frames' = SubSeq(frames, 1, Len(frames) - 1)
     /\ castCanvas' = IF success THEN castCanvas ELSE top.saved
     /\ lastCall' = Call(fn, top.sender, top.user, 0, 0, success, FALSE)
  /\ UNCHANGED blockTimestamp

\* lines 93-97: withdraw() up to the transfer to owner()
withdrawCall(sender) ==
  /\ IF ~OnlyOwner(sender) \/ ~(castCanvas.balance > 0)
     THEN Revert("withdraw", sender, ZeroAddress, 0, 0) /\ UNCHANGED frames
     ELSE CallOut("withdraw", sender, ZeroAddress, Owner)
  /\ UNCHANGED blockTimestamp

\* lines 97-99: the transfer of withdraw() returns
withdrawReturn(success) == CallBack("withdraw", success)

\* lines 102-107: emergencyWithdraw(recipient) up to the transfer
emergencyWithdrawCall(sender, recipient) ==
  /\ IF \/ ~OnlyOwner(sender)
        \/ ~(castCanvas.balance > 0)
        \/ recipient = ZeroAddress
     THEN Revert("emergencyWithdraw", sender, recipient, 0, 0) /\ UNCHANGED frames
     ELSE CallOut("emergencyWithdraw", sender, recipient, recipient)
  /\ UNCHANGED blockTimestamp

\* lines 107-109: the transfer of emergencyWithdraw(recipient) returns
emergencyWithdrawReturn(success) == CallBack("emergencyWithdraw", success)

\* line 117: receive()
receive(sender, value) ==
  /\ Affordable(sender, 0, value)
  /\ castCanvas' = [castCanvas EXCEPT !.balance = @ + value]
  /\ lastCall' = Call("receive", sender, ZeroAddress, value, 0, TRUE, FALSE)
  /\ UNCHANGED <<blockTimestamp, frames>>

\* A block of a later timestamp is mined, up to day MaxDays.
Mine ==
  /\ frames = <<>>
  /\ blockTimestamp + 1 < (MaxDays + 1) * TicksPerDay
  /\ blockTimestamp' = blockTimestamp + 1
  /\ lastCall' = NoCall
  /\ UNCHANGED <<castCanvas, frames>>

---------------------------------------------------------------------------
(* The useAuth hook  (src/src/hooks/useAuth.ts).                           *)
(* An async function runs from one await to the next in one step; the      *)
(* setState calls of a stretch are applied together.                       *)

\* context?.user?.fid, as a condition
HasFid(contextUser) == contextUser.fid # 0

\* lines 114-122
createUserFromContext(contextUser) ==
  ContextUser(contextUser.fid, contextUser.username)

\* The call of slot a returns, isValid being what its validation gave.
Finish(a, isValid, ret) ==
  calls' = [calls EXCEPT ![a] =
              [@ EXCEPT !.pc = "done", !.isValid = isValid, !.ret = ret]]

\* The caller has the returned value.
Settle(a) ==
  /\ calls[a].pc = "done"
  /\ calls' = [calls EXCEPT ![a] = IdleCall]
  /\ UNCHANGED <<context, auth, effect>>

\* useMiniApp() delivers another context.user: the hook renders again with
\* a new checkAuthentication (line 172), which the effect of lines 177-179
\* is to run.
ContextChange(contextUser) ==
  /\ contextUser # context
  /\ context' = contextUser
  /\ effect' = TRUE
  /\ UNCHANGED <<auth, calls>>

\* lines 148-149, 161-162 and 200-201
SetAuthenticated(contextUser) ==
  auth' = [auth EXCEPT !.user = <<createUserFromContext(contextUser)>>,
                       !.status = "authenticated"]

\* ContextFallback with a fault: no authentication by the context alone.
NoContextFallback(contextUser) == FALSE

\* line 160
ContextFallback(contextUser) == HasFid(contextUser)

\* lines 158-166: QuickAuth gave no valid token
CheckFallback(a) ==
  /\ IF ContextFallback(calls[a].contextUser)
     THEN SetAuthenticated(calls[a].contextUser)
     ELSE auth' = [auth EXCEPT !.status = "unauthenticated"]
  /\ Finish(a, FALSE, NoResult)

\* The effect runs checkAuthentication, lines 127-140, with the context of
\* its render.
checkAuthentication(a) ==
  /\ effect
  /\ calls[a] = IdleCall
  /\ effect' = FALSE
  /\ IF ~HasFid(context)
     THEN /\ auth' = [auth EXCEPT !.status = "unauthenticated", !.error = <<>>]
          /\ calls' = [calls EXCEPT ![a] =
                         ClientCall("checkAuthentication", "done", context,
                                    IdleCall.config, "", FALSE, NoResult)]
     ELSE /\ auth' = [auth EXCEPT !.status = "loading", !.error = <<>>]
          /\ calls' = [calls EXCEPT ![a] =
                         ClientCall("checkAuthentication", "getToken", context,
                                    IdleCall.config, "", FALSE, NoResult)]
  /\ UNCHANGED context

\* lines 140-142 and 153-156: sdk.quickAuth.getToken() settles
checkAuthenticationToken(a, got) ==
  /\ calls[a].fn = "checkAuthentication"
  /\ calls[a].pc = "getToken"
  /\ IF got.ok /\ got.token # ""
     THEN /\ calls' = [calls EXCEPT ![a] = [@ EXCEPT !.pc = "validate",
                                                    !.token = got.token]]
          /\ UNCHANGED auth
     ELSE CheckFallback(a)
  /\ UNCHANGED <<context, effect>>

\* lines 144-151: validateTokenWithServer(token) settles; it resolves with
\* false when the fetch fails (lines 105-108)
checkAuthenticationValid(a, isValid) ==
  /\ calls[a].fn = "checkAuthentication"
  /\ calls[a].pc = "validate"
  /\ IF isValid
     THEN /\ SetAuthenticated(calls[a].contextUser)
          /\ Finish(a, TRUE, NoResult)
     ELSE CheckFallback(a)
  /\ UNCHANGED <<context, effect>>

\* lines 206-209
SignInFailed(a, isValid) ==
  /\ auth' = [auth EXCEPT !.status = "unauthenticated",
                          !.error = <<"Authentication failed. Please try again.">>]
  /\ Finish(a, isValid, Result(FALSE, <<>>, "", FALSE))

\* lines 186-192: signIn of the current render is called
signIn(a) ==
  /\ calls[a] = IdleCall
  /\ auth' = [auth EXCEPT !.status = "loading", !.error = <<>>]
  /\ calls' = [calls EXCEPT ![a] =
                 ClientCall("signIn", "getToken", context, IdleCall.config,
                            "", FALSE, NoResult)]
  /\ UNCHANGED <<context, effect>>

\* lines 192-194 and 210-215: sdk.quickAuth.getToken() settles
signInToken(a, got) ==
  /\ calls[a].fn = "signIn"
  /\ calls[a].pc = "getToken"
  /\ IF ~got.ok
     THEN /\ auth' = [auth EXCEPT !.status = "error",
                                  !.error = <<"Sign-in failed. Please try again.">>]
          /\ Finish(a, FALSE, Result(FALSE, <<>>, "", FALSE))
     ELSE IF got.token # ""
     THEN /\ calls' = [calls EXCEPT ![a] = [@ EXCEPT !.pc = "validate",
                                                    !.token = got.token]]
          /\ UNCHANGED auth
     ELSE SignInFailed(a, FALSE)
  /\ UNCHANGED <<context, effect>>

\* SignInAccepted with a fault: the context is not looked at.
SignInAcceptedAnyContext(isValid, contextUser) == isValid

\* line 198
SignInAccepted(isValid, contextUser) == isValid /\ HasFid(contextUser)

\* lines 196-209: validateTokenWithServer(token) settles
signInValid(a, isValid) ==
  /\ calls[a].fn = "signIn"
  /\ calls[a].pc = "validate"
  /\ IF SignInAccepted(isValid, calls[a].contextUser)
     THEN /\ SetAuthenticated(calls[a].contextUser)
          /\ Finish(a, isValid, Result(TRUE, <<>>, "", FALSE))
     ELSE SignInFailed(a, isValid)
  /\ UNCHANGED <<context, effect>>

\* lines 221-234: signOut awaits nothing
signOut ==
  /\ auth' = AuthState(<<>>, "unauthenticated", <<>>)
  /\ UNCHANGED <<context, calls, effect>>

\* lines 254-256
clearError ==
  /\ auth' = [auth EXCEPT !.error = <<>>]
  /\ UNCHANGED <<context, calls, effect>>

---------------------------------------------------------------------------
(* lib/auth authenticate  (src/src/lib/auth.ts, lines 89-160).             *)
(* getQuickAuthToken and validateQuickAuthToken catch what they await, so  *)
(* that the catch of lines 153-159 receives nothing.                       *)

\* lines 108-117 and 135-144: the result made from sdk.context
Success(contextUser, usedQuickAuth) ==
  Result(TRUE, <<createUserFromContext(contextUser)>>, "", usedQuickAuth)

\* QuickAuthRequired with a fault: the option is not looked at.
QuickAuthNeverRequired(requireQuickAuth) == FALSE

\* line 123
QuickAuthRequired(requireQuickAuth) == requireQuickAuth

\* lines 122-152: QuickAuth gave no result; sdk.context is read as it is now
AuthenticateFallback(a, isValid) ==
  LET config == calls[a].config IN
  IF QuickAuthRequired(config.requireQuickAuth)
  THEN Finish(a, isValid,
              Result(FALSE, <<>>, "QuickAuth is required but not available", FALSE))
  ELSE IF config.allowContextOnly /\ HasFid(context)
  THEN Finish(a, isValid, Success(context, FALSE))
  ELSE Finish(a, isValid,
              Result(FALSE, <<>>, "No authentication method available", FALSE))

\* lines 89-99: authenticate(config) is called
authenticate(a, config) ==
  /\ calls[a] = IdleCall
  /\ calls' = [calls EXCEPT ![a] =
                 ClientCall("authenticate", "getToken", NoUser, config,
                            "", FALSE, NoResult)]
  /\ UNCHANGED <<context, auth, effect>>

\* lines 99-101, with getQuickAuthToken (lines 73-81): a rejection and a
\* missing token both give null
authenticateToken(a, got) ==
  /\ calls[a].fn = "authenticate"
  /\ calls[a].pc = "getToken"
  /\ IF got.ok /\ got.token # ""
     THEN calls' = [calls EXCEPT ![a] = [@ EXCEPT !.pc = "validate",
                                                 !.token = got.token]]
     ELSE AuthenticateFallback(a, FALSE)
  /\ UNCHANGED <<context, auth, effect>>

\* lines 102-120: validateQuickAuthToken settles
authenticateValid(a, isValid) ==
  /\ calls[a].fn = "authenticate"
  /\ calls[a].pc = "validate"
  /\ IF isValid /\ HasFid(context)
     THEN Finish(a, isValid, Success(context, TRUE))
     ELSE AuthenticateFallback(a, isValid)
  /\ UNCHANGED <<context, auth, effect>>

---------------------------------------------------------------------------
(* Inputs.                                                                 *)

U1 == <<"u", "1">>
U2 == <<"u", "2">>
Users == {U1, U2}

Red == <<"#", "F", "F", "0", "0", "0", "0">>
Green == <<"#", "0", "0", "f", "f", "0", "0">>
ShortColor == <<"#", "F", "F", "F">>
NamedColor == <<"#", "F", "F", "0", "0", "0", "G">>
LongColor == <<"#", "F", "F", "0", "0", "0", "0", "0">>

\* Placement requests of one cell and one color, valid and not.
QuotaBodies ==
  {CanvasBody(Num(0), Num(0), Str(Red), Str(u)) : u \in Users}
    \cup {CanvasBody(Num(CANVAS_SIZE * Half), Num(0), Str(Red), Str(U1)),
          CanvasBody(Num(0), Num(CANVAS_SIZE * Half), Str(Red), Str(U1)),
          CanvasBody(Num(-1), Num(0), Str(Red), Str(U1)),
          CanvasBody(Num(0), Num(-1), Str(Red), Str(U1)),
          CanvasBody(Str(<<"0">>), Num(0), Str(Red), Str(U1)),
          CanvasBody(Num(0), Undefined, Str(Red), Str(U1)),
          CanvasBody(Num(0), Num(0), Num(0), Str(U1)),
          CanvasBody(Num(0), Num(0), Str(ShortColor), Str(U1)),
          CanvasBody(Num(0), Num(0), Str(NamedColor), Str(U1)),
          CanvasBody(Num(0), Num(0), Str(LongColor), Str(U1)),
          CanvasBody(Num(0), Num(0), Str(Red), Undefined),
          CanvasBody(Num(0), Num(0), Str(Red), Num(1)),
          BadJson}

\* Purchases of the two users with a paid transaction.
QuotaPurchases == {PurchaseBody(Str(u), Str(HPaid)) : u \in Users}

\* Placement requests over two cells, two colors and whole and fractional
\* coordinates.
CanvasBodies ==
  {CanvasBody(Num(x), Num(y), Str(c), Str(u)) :
     x \in {0, 1, CANVAS_SIZE * Half - 1}, y \in {0, 1},
     c \in {Red, Green}, u \in Users}
    \cup {CanvasBody(Num(x), Num(0), Str(c), Str(U1)) :
            x \in {-1, CANVAS_SIZE * Half}, c \in {Red, NamedColor}}

\* Placement requests of one user racing for the last units, valid and not.
RaceBodies ==
  {CanvasBody(Num(0), Num(0), Str(Red), Str(U1)),
   CanvasBody(Num(0), Num(0), Str(ShortColor), Str(U1))}

\* Purchase requests: every hash for the first user, the paid ones for the
\* second, and requests that miss a field.
PurchaseBodies ==
  {PurchaseBody(Str(U1), Str(h)) :
     h \in {HPaid, HPaid2, HOther, HCheap, HReverted, HUnknown}}
    \cup {PurchaseBody(Str(U2), Str(h)) : h \in {HPaid, HPaid2}}
    \cup {PurchaseBody(Undefined, Str(HPaid)), PurchaseBody(Str(U1), Str(<<>>)),
          BadJson}

\* Placements of two users over two cells, and one the route refuses.
ReadBodies ==
  {CanvasBody(Num(x), Num(0), Str(Red), Str(u)) : x \in {0, Half}, u \in Users}
    \cup {CanvasBody(Num(0), Num(0), Str(ShortColor), Str(U1))}

\* searchParams.get('address'): an address, the empty string, or null.
ReadAddresses == {Str(U1), Str(U2), Str(<<>>), Undefined}

\* What the context may hold, and what getToken may settle with.
ContextUsers == {NoUser, ContextUser(1, "alice")}
GotTokens == {GotToken(FALSE, ""), GotToken(TRUE, ""), GotToken(TRUE, "jwt")}

\* The options authenticate is called with, {} being the defaults.
AuthConfigs == {AuthConfig(r, c) : r \in BOOLEAN, c \in BOOLEAN}

\* Callers of the contract, and the ether a call may carry.
Senders == {Owner, Alice}
Payments ==
  {0, PRICE_PER_PURCHASE - 1, PRICE_PER_PURCHASE, PRICE_PER_PURCHASE + 1}

---------------------------------------------------------------------------
(* Specifications.                                                         *)

\* The API served one request at a time: placements of one cell and
\* purchases.
Next ==
  \/ Tick(MaxNow) /\ UNCHANGED <<onchain, client>>
  \/ \E b \in QuotaBodies : CanvasReceive(1, b) /\ UNCHANGED <<onchain, client>>
  \/ CanvasPOST(1) /\ UNCHANGED <<onchain, client>>
  \/ \E b \in QuotaPurchases : PurchaseReceive(1, b) /\ UNCHANGED <<onchain, client>>
  \/ PurchaseJson(1) /\ UNCHANGED <<onchain, client>>
  \/ \E rpc \in BOOLEAN : PurchaseTx(1, rpc) /\ UNCHANGED <<onchain, client>>
  \/ \E rpc \in BOOLEAN : PurchaseReceipt(1, rpc) /\ UNCHANGED <<onchain, client>>
  \/ Respond(1) /\ UNCHANGED <<onchain, client>>

Spec == Init /\ [][Next]_vars

\* Placements over several cells, one request at a time, within one tick of
\* the clock.
NextCanvas ==
  \/ \E b \in CanvasBodies : CanvasReceive(1, b) /\ UNCHANGED <<onchain, client>>
  \/ CanvasPOST(1) /\ UNCHANGED <<onchain, client>>
  \/ Respond(1) /\ UNCHANGED <<onchain, client>>

SpecCanvas == Init /\ [][NextCanvas]_vars

\* Placements, and reads of the canvas and of a user's quota, over two days.
NextRead ==
  \/ Tick(TicksPerDay) /\ UNCHANGED <<onchain, client>>
  \/ \E b \in ReadBodies : CanvasReceive(1, b) /\ UNCHANGED <<onchain, client>>
  \/ CanvasPOST(1) /\ UNCHANGED <<onchain, client>>
  \/ CanvasGET(1) /\ UNCHANGED <<onchain, client>>
  \/ \E address \in ReadAddresses : UserGET(1, address) /\ UNCHANGED <<onchain, client>>
  \/ Respond(1) /\ UNCHANGED <<onchain, client>>

SpecRead == Init /\ [][NextRead]_vars

\* Placements served concurrently.
NextRace ==
  \/ Tick(MaxNow) /\ UNCHANGED <<onchain, client>>
  \/ \E s \in Slots, b \in RaceBodies : CanvasReceive(s, b) /\ UNCHANGED <<onchain, client>>
  \/ \E s \in Slots : CanvasPOST(s) /\ UNCHANGED <<onchain, client>>
  \/ \E s \in Slots : Respond(s) /\ UNCHANGED <<onchain, client>>

SpecRace == Init /\ [][NextRace]_vars

\* Purchases served concurrently.
NextPurchase ==
  \/ \E s \in Slots, b \in PurchaseBodies : PurchaseReceive(s, b) /\ UNCHANGED <<onchain, client>>
  \/ \E s \in Slots : PurchaseJson(s) /\ UNCHANGED <<onchain, client>>
  \/ \E s \in Slots, rpc \in BOOLEAN : PurchaseTx(s, rpc) /\ UNCHANGED <<onchain, client>>
  \/ \E s \in Slots, rpc \in BOOLEAN : PurchaseReceipt(s, rpc) /\ UNCHANGED <<onchain, client>>
  \/ \E s \in Slots : Respond(s) /\ UNCHANGED <<onchain, client>>

SpecPurchase == Init /\ [][NextPurchase]_vars

\* The quota functions of the contract called by its owner and by a user,
\* as blocks are mined.
NextChain ==
  \/ \E sender \in Senders, value \in Payments :
       purchasePixels(sender, value) /\ UNCHANGED <<server, client>>
  \/ \E sender \in Senders, user \in {Alice, ZeroAddress} :
       addPixelsToUser(sender, user, 1) /\ UNCHANGED <<server, client>>
  \/ \E sender \in Senders : usePixel(sender, Alice) /\ UNCHANGED <<server, client>>
  \/ \E sender \in Senders : resetDailyPixels(sender, Alice) /\ UNCHANGED <<server, client>>
  \/ Mine /\ UNCHANGED <<server, client>>

SpecChain == Init /\ [][NextChain]_vars

\* Every function of the contract called by its owner and by a user, within
\* one block.
NextOwner ==
  \/ \E sender \in Senders, value \in Payments :
       purchasePixels(sender, value) /\ UNCHANGED <<server, client>>
  \/ \E sender \in Senders, user \in {Alice, ZeroAddress} :
       addPixelsToUser(sender, user, 1) /\ UNCHANGED <<server, client>>
  \/ \E sender \in Senders : usePixel(sender, Alice) /\ UNCHANGED <<server, client>>
  \/ \E sender \in Senders : resetDailyPixels(sender, Alice) /\ UNCHANGED <<server, client>>
  \/ \E sender \in Senders, success \in BOOLEAN :
       withdraw(sender, success) /\ UNCHANGED <<server, client>>
  \/ \E sender \in Senders, recipient \in {Alice, ZeroAddress}, success \in BOOLEAN :
       emergencyWithdraw(sender, recipient, success) /\ UNCHANGED <<server, client>>
  \/ \E sender \in Senders : receive(sender, PRICE_PER_PURCHASE) /\ UNCHANGED <<server, client>>

SpecOwner == Init /\ [][NextOwner]_vars

\* Transactions whose transfers hand control to the recipient, who may call
\* the contract again before returning.
NextReentry ==
  \/ \E sender \in Senders, value \in Payments :
       purchasePixels(sender, value) /\ UNCHANGED <<server, client>>
  \/ \E sender \in Senders : withdrawCall(sender) /\ UNCHANGED <<server, client>>
  \/ \E success \in BOOLEAN : withdrawReturn(success) /\ UNCHANGED <<server, client>>
  \/ \E sender \in Senders, recipient \in {Alice, ZeroAddress} :
       emergencyWithdrawCall(sender, recipient) /\ UNCHANGED <<server, client>>
  \/ \E success \in BOOLEAN : emergencyWithdrawReturn(success) /\ UNCHANGED <<server, client>>

SpecReentry == Init /\ [][NextReentry]_vars

\* The placement and the purchase of the user followed through a day
\* rollover, a retry and on the chain.
LedgerBody == CanvasBody(Num(0), Num(0), Str(Red), Str(U1))
LedgerPurchase == PurchaseBody(Str(U1), Str(HPaid))

\* The hook in a mounted component: the context comes and goes, the user
\* signs in and out, and the awaits settle in any order.
NextAuth ==
  \/ \E contextUser \in ContextUsers :
       ContextChange(contextUser) /\ UNCHANGED <<server, onchain>>
  \/ \E a \in CallSlots : checkAuthentication(a) /\ UNCHANGED <<server, onchain>>
  \/ \E a \in CallSlots, got \in GotTokens :
       checkAuthenticationToken(a, got) /\ UNCHANGED <<server, onchain>>
  \/ \E a \in CallSlots, isValid \in BOOLEAN :
       checkAuthenticationValid(a, isValid) /\ UNCHANGED <<server, onchain>>
  \/ \E a \in CallSlots : signIn(a) /\ UNCHANGED <<server, onchain>>
  \/ \E a \in CallSlots, got \in GotTokens :
       signInToken(a, got) /\ UNCHANGED <<server, onchain>>
  \/ \E a \in CallSlots, isValid \in BOOLEAN :
       signInValid(a, isValid) /\ UNCHANGED <<server, onchain>>
  \/ signOut /\ UNCHANGED <<server, onchain>>
  \/ clearError /\ UNCHANGED <<server, onchain>>
  \/ \E a \in CallSlots : Settle(a) /\ UNCHANGED <<server, onchain>>

SpecAuth == Init /\ [][NextAuth]_vars

\* authenticate called with every configuration while the context comes
\* and goes.
NextLibAuth ==
  \/ \E contextUser \in ContextUsers :
       ContextChange(contextUser) /\ UNCHANGED <<server, onchain>>
  \/ \E a \in CallSlots, config \in AuthConfigs :
       authenticate(a, config) /\ UNCHANGED <<server, onchain>>
  \/ \E a \in CallSlots, got \in GotTokens :
       authenticateToken(a, got) /\ UNCHANGED <<server, onchain>>
  \/ \E a \in CallSlots, isValid \in BOOLEAN :
       authenticateValid(a, isValid) /\ UNCHANGED <<server, onchain>>
  \/ \E a \in CallSlots : Settle(a) /\ UNCHANGED <<server, onchain>>

SpecLibAuth == Init /\ [][NextLibAuth]_vars

\* Purchases of one user for one payment, first submissions and repeats.
NextRetry ==
  \/ \E s \in Slots : PurchaseReceive(s, LedgerPurchase) /\ UNCHANGED <<onchain, client>>
  \/ \E s \in Slots : PurchaseRetry(s, LedgerPurchase) /\ UNCHANGED <<onchain, client>>
  \/ \E s \in Slots : PurchaseJson(s) /\ UNCHANGED <<onchain, client>>
  \/ \E s \in Slots, rpc \in BOOLEAN : PurchaseTx(s, rpc) /\ UNCHANGED <<onchain, client>>
  \/ \E s \in Slots, rpc \in BOOLEAN : PurchaseReceipt(s, rpc) /\ UNCHANGED <<onchain, client>>
  \/ \E s \in Slots : Respond(s) /\ UNCHANGED <<onchain, client>>

SpecRetry == Init /\ [][NextRetry]_vars

\* The user whose quota both the server and the contract keep: the server
\* knows the user as U1, the contract by the address Alice.

\* The server and the contract driven by one sequence of events: a day
\* advance moves both clocks, a placement handled by the server is a
\* usePixel of the owner, and a purchase the server credits is a
\* purchasePixels of the user.
NextLedger ==
  \/ Tick(MaxDays * TicksPerDay - 1) /\ Mine /\ UNCHANGED client
  \/ CanvasReceive(1, LedgerBody) /\ UNCHANGED <<onchain, client>>
  \/ CanvasPOST(1) /\ usePixel(Owner, Alice) /\ UNCHANGED client
  \/ PurchaseReceive(1, LedgerPurchase) /\ UNCHANGED <<onchain, client>>
  \/ PurchaseJson(1) /\ UNCHANGED <<onchain, client>>
  \/ PurchaseTx(1, TRUE) /\ UNCHANGED <<onchain, client>>
  \/ PurchaseReceipt(1, TRUE) /\ purchasePixels(Alice, PRICE_PER_PURCHASE)
       /\ UNCHANGED client
  \/ Respond(1) /\ UNCHANGED <<onchain, client>>
  \/ resetDailyPixels(Owner, Alice) /\ UNCHANGED <<server, client>>

SpecLedger == Init /\ [][NextLedger]_vars

---------------------------------------------------------------------------
(* What the claims speak of.                                               *)

\* The handler of slot s answers its POST /canvas in this step.
CanvasAnswered(s) ==
  /\ inflight[s].route = "canvas"
  /\ inflight[s].pc = "json"
  /\ inflight'[s].pc = "done"

\* The handler of slot s answers its POST /canvas/purchase in this step.
PurchaseAnswered(s) ==
  /\ inflight[s].route = "purchase"
  /\ inflight[s].pc \in {"json", "tx", "receipt"}
  /\ inflight'[s].pc = "done"

\* Slot s holds the answer to a POST /canvas.
CanvasDone(s) == inflight[s].route = "canvas" /\ inflight[s].pc = "done"

\* Slot s holds the answer to a POST /canvas/purchase.
PurchaseDone(s) == inflight[s].route = "purchase" /\ inflight[s].pc = "done"

\* '#' followed by exactly six hex digits.
SixHexDigits(c) ==
  /\ Len(c) = 7
  /\ c[1] = "#"
  /\ \A i \in 2..7 :
       c[i] \in {"0", "1", "2", "3", "4", "5", "6", "7", "8", "9",
                 "a", "b", "c", "d", "e", "f", "A", "B", "C", "D", "E", "F"}

\* A number in [0, CANVAS_SIZE), in halves.
InCanvas(v) == 0 <= v /\ v < CANVAS_SIZE * Half

\* The request body has a field of the wrong type, a coordinate outside the
\* canvas or a malformed color.
BadInput(b) ==
  \/ b.x.t # "number"
  \/ b.y.t # "number"
  \/ b.color.t # "string"
  \/ b.user.t # "string"
  \/ ~InCanvas(b.x.n)
  \/ ~InCanvas(b.y.n)
  \/ ~SixHexDigits(b.color.s)

ValidPlacement(b) == b.json /\ ~BadInput(b)

\* Both coordinates are whole numbers.
WholeCoordinates(b) == b.x.n % Half = 0 /\ b.y.n % Half = 0

\* Units of the daily allotment the counters leave user u on day d.
DailyRemaining(u, d) == DAILY_PIXEL_LIMIT - Lookup(userDailyPixels, <<u, d>>)

PurchasedBalance(u) == Lookup(userPurchasedPixels, <<u, "purchased">>)

\* The chain holds a successful payment of the price to the payment wallet
\* under this hash.
VerifiedPayment(hash) ==
  /\ ChainTransaction(hash).found
  /\ ToLowerCase(ChainTransaction(hash).to) = <<"0", "x", "a", "b", "c", "1">>
  /\ ChainTransaction(hash).value = PRICE_PER_PURCHASE
  /\ ChainReceipt(hash).found
  /\ ChainReceipt(hash).status = "success"

\* Credits made on account of a transaction hash, over all users.
CreditsFor(hash) ==
  LET RECURSIVE Sum(_)
      Sum(K) == IF K = {} THEN 0
                ELSE LET k == CHOOSE j \in K : TRUE
                     IN Len(credits[k]) + Sum(K \ {k})
  IN Sum({k \in DOMAIN credits : k[2] = hash})

---------------------------------------------------------------------------
(* C1. The same proof submitted twice by the same user is credited once:   *)
(* every credit made for a (user, transactionHash) reports the             *)
(* totalPurchased, which is the balance it leaves, of the first one.       *)
C1_SameProofCreditedOnce ==
  \A k \in DOMAIN credits :
    \A i \in 1..Len(credits[k]) : credits[k][i] = credits[k][1]

(* C2. One transaction hash produces at most one credit in total: the      *)
(* pixels credited on its account, summed over all users, never exceed     *)
(* PIXELS_PER_PURCHASE.                                                    *)
C2_OneCreditPerProof ==
  \A k \in DOMAIN credits :
    PIXELS_PER_PURCHASE * CreditsFor(k[2]) <= PIXELS_PER_PURCHASE

(* C3. Placements racing for a user's last units: a valid request is       *)
(* accepted exactly when the user has placed fewer than DAILY_PIXEL_LIMIT  *)
(* pixels that day and is answered 429 otherwise, no user ever places more *)
(* than DAILY_PIXEL_LIMIT pixels a day, and of two requests that arrived   *)
(* while one unit was left and were served that day, not both succeed.     *)
C3_NoDoubleSpend ==
  /\ \A k \in DOMAIN placed : placed[k] <= DAILY_PIXEL_LIMIT
  /\ \A s1, s2 \in Slots :
       ( /\ s1 # s2
         /\ CanvasDone(s1) /\ CanvasDone(s2)
         /\ inflight[s1].body.user = inflight[s2].body.user
         /\ inflight[s1].seen = inflight[s2].seen
         /\ inflight[s1].seen.avail = 1
         /\ inflight[s1].res.status = 200
         /\ ToDateString(inflight[s1].res.pixel[1].timestamp) = inflight[s1].seen.day )
       => ~( /\ inflight[s2].res.status = 200
             /\ ToDateString(inflight[s2].res.pixel[1].timestamp) = inflight[s2].seen.day )

C3_ServedByCount ==
  \A s \in Slots :
    (CanvasAnswered(s) /\ ValidPlacement(inflight[s].body)) =>
      LET n == Lookup(placed, <<inflight[s].body.user.s, ToDateString(now)>>) IN
      IF n < DAILY_PIXEL_LIMIT
      THEN inflight'[s].res.status = 200
      ELSE inflight'[s].res.status = 429

C3_ExactlyOneWinner == [](C3_NoDoubleSpend) /\ [][C3_ServedByCount]_vars

\* Two requests of one user that arrived while one unit was left have been
\* answered, one with success and one with 429.
C3_Witness ==
  \E s1, s2 \in Slots :
    /\ s1 # s2
    /\ CanvasDone(s1) /\ CanvasDone(s2)
    /\ ValidPlacement(inflight[s1].body) /\ ValidPlacement(inflight[s2].body)
    /\ inflight[s1].body.user = inflight[s2].body.user
    /\ inflight[s1].seen = Seen(1, ToDateString(now))
    /\ inflight[s2].seen = Seen(1, ToDateString(now))
    /\ inflight[s1].res.status = 200
    /\ inflight[s2].res.status = 429

(* C4. POST /canvas answers 429 only when the user has no unit available,  *)
(* the daily remainder and the purchased balance taken together.           *)
C4_RejectedOnlyAtZero ==
  [][\A s \in Slots :
       (CanvasAnswered(s) /\ inflight'[s].res.status = 429) =>
         DailyRemaining(inflight[s].body.user.s, ToDateString(now))
           + PurchasedBalance(inflight[s].body.user.s) = 0]_vars

(* C5. A user without purchased balance: a valid placement is accepted     *)
(* while fewer than DAILY_PIXEL_LIMIT pixels were placed that day, the     *)
(* n-th reporting remainingPixels = DAILY_PIXEL_LIMIT - n (4, 3, 2, 1, 0), *)
(* and every further one that day is answered 429.                         *)
C5_FiveThenRejected ==
  [][\A s \in Slots :
       ( /\ CanvasAnswered(s)
         /\ ValidPlacement(inflight[s].body)
         /\ PurchasedBalance(inflight[s].body.user.s) = 0 ) =>
         LET n == Lookup(placed, <<inflight[s].body.user.s, ToDateString(now)>>) IN
         IF n < DAILY_PIXEL_LIMIT
         THEN /\ inflight'[s].res.status = 200
              /\ inflight'[s].res.remainingPixels = DAILY_PIXEL_LIMIT - (n + 1)
         ELSE inflight'[s].res.status = 429]_vars

\* A sixth valid placement of the day has been answered 429.
C5_Witness ==
  \E s \in Slots :
    /\ CanvasDone(s)
    /\ ValidPlacement(inflight[s].body)
    /\ inflight[s].res.status = 429
    /\ Lookup(placed, <<inflight[s].body.user.s, ToDateString(now)>>) = DAILY_PIXEL_LIMIT
    /\ PurchasedBalance(inflight[s].body.user.s) = 0

(* C6. An accepted placement at whole coordinates (x, y), the second of    *)
(* two successive ones included, leaves exactly one pixel at (x, y), with  *)
(* the color, owner and coordinates of the request.                        *)
C6_LastWriteWins ==
  [][\A s \in Slots :
       ( /\ CanvasAnswered(s)
         /\ inflight'[s].res.status = 200
         /\ WholeCoordinates(inflight[s].body) ) =>
         LET b == inflight[s].body
             at == {i \in 1..Len(canvasPixels') :
                      /\ canvasPixels'[i].x = b.x.n
                      /\ canvasPixels'[i].y = b.y.n}
         IN /\ Cardinality(at) = 1
            /\ \A i \in at : /\ canvasPixels'[i].color = b.color.s
                             /\ canvasPixels'[i].user = b.user.s]_vars

\* The second of two accepted placements, by another user in another color,
\* has replaced the first at (0, 0).
C6_Witness ==
  /\ CanvasDone(1)
  /\ inflight[1].res.status = 200
  /\ inflight[1].body = CanvasBody(Num(0), Num(0), Str(Green), Str(U2))
  /\ Lookup(placed, <<U1, 0>>) = 1
  /\ Lookup(placed, <<U2, 0>>) = 1
  /\ Len(canvasPixels) = 1
  /\ canvasPixels[1].color = Green
  /\ canvasPixels[1].user = U2

(* C7. The pixel list never holds two pixels with the same stored (x, y).  *)
C7_OnePixelPerCell ==
  \A i, j \in 1..Len(canvasPixels) :
    (canvasPixels[i].x = canvasPixels[j].x /\ canvasPixels[i].y = canvasPixels[j].y)
      => i = j

(* C8. A placement is all or nothing: the pixels a user placed on a day    *)
(* are the count the quota counter holds for that user and day; a request  *)
(* answered with success stores its pixel and raises that one counter by   *)
(* one; a request answered 400, 429 or 500 changes neither the pixel list  *)
(* nor a quota counter.                                                    *)
C8_PlacedIsCounted ==
  \A k \in DOMAIN placed \cup DOMAIN userDailyPixels :
    Lookup(placed, k) = Lookup(userDailyPixels, k)

C8_AnswerMatchesEffect ==
  \A s \in Slots :
    CanvasAnswered(s) =>
      LET k == <<inflight[s].body.user.s, ToDateString(now)>> IN
      IF inflight'[s].res.status = 200
      THEN /\ Len(canvasPixels') > 0
           /\ canvasPixels'[Len(canvasPixels')] = inflight'[s].res.pixel[1]
           /\ Lookup(userDailyPixels', k) = Lookup(userDailyPixels, k) + 1
           /\ \A j \in DOMAIN userDailyPixels' :
                j # k => (j \in DOMAIN userDailyPixels
                          /\ userDailyPixels'[j] = userDailyPixels[j])
           /\ UNCHANGED userPurchasedPixels
      ELSE /\ inflight'[s].res.status \in {400, 429, 500}
           /\ UNCHANGED <<canvasPixels, userDailyPixels, userPurchasedPixels>>

C8_AllOrNothing == [](C8_PlacedIsCounted) /\ [][C8_AnswerMatchesEffect]_vars

\* Both users have placed pixels, the first five of them, and a further
\* request of the first has been answered 429.
C8_Witness ==
  \E s \in Slots :
    /\ CanvasDone(s)
    /\ inflight[s].res.status = 429
    /\ inflight[s].body.user.s = U1
    /\ Lookup(placed, <<U1, ToDateString(now)>>) = DAILY_PIXEL_LIMIT
    /\ Lookup(placed, <<U2, ToDateString(now)>>) = 1
    /\ Len(canvasPixels) = 1

(* C9. A request with a field of the wrong type, a coordinate outside      *)
(* [0, CANVAS_SIZE) or a malformed color is answered 400 and changes       *)
(* neither the pixel list nor a quota counter, also when the user's quota  *)
(* is exhausted.                                                           *)
C9_InvalidInputRejected ==
  [][\A s \in Slots :
       ( /\ CanvasAnswered(s)
         /\ inflight[s].body.json
         /\ BadInput(inflight[s].body) ) =>
         /\ inflight'[s].res.status = 400
         /\ UNCHANGED <<canvasPixels, userDailyPixels, userPurchasedPixels>>]_vars

\* A request with a coordinate outside the canvas, of a user whose quota is
\* exhausted, has been answered 400.
C9_Witness ==
  \E s \in Slots :
    /\ CanvasDone(s)
    /\ inflight[s].body.json
    /\ inflight[s].body.user.t = "string"
    /\ inflight[s].body.x.t = "number"
    /\ ~InCanvas(inflight[s].body.x.n)
    /\ inflight[s].res.status = 400
    /\ DailyRemaining(inflight[s].body.user.s, ToDateString(now)) = 0

(* C10. POST /canvas/purchase raises a purchased balance only in answering *)
(* with success a request whose transaction pays exactly PRICE_PER_PURCHASE*)
(* to PAYMENT_WALLET and succeeded; it then raises the balance of the      *)
(* request's user by exactly PIXELS_PER_PURCHASE and no other balance; any *)
(* other answer leaves every balance unchanged.                            *)
C10_CreditOnlyVerified ==
  [][/\ \A s \in Slots :
          PurchaseAnswered(s) =>
            LET u == inflight[s].body.user.s
                hash == inflight[s].body.transactionHash.s
            IN
            IF inflight'[s].res.status = 200
            THEN /\ VerifiedPayment(hash)
                 /\ DOMAIN userPurchasedPixels' =
                      DOMAIN userPurchasedPixels \cup {<<u, "purchased">>}
                 /\ \A k \in DOMAIN userPurchasedPixels' :
                      userPurchasedPixels'[k] =
                        IF k = <<u, "purchased">>
                        THEN PurchasedBalance(u) + PIXELS_PER_PURCHASE
                        ELSE userPurchasedPixels[k]
            ELSE UNCHANGED userPurchasedPixels
     /\ userPurchasedPixels' # userPurchasedPixels =>
          \E s \in Slots : PurchaseAnswered(s) /\ inflight'[s].res.status = 200]_vars

\* A payment whose recipient the node spells in another case has been
\* credited.
C10_Witness ==
  \E s \in Slots :
    /\ PurchaseDone(s)
    /\ inflight[s].body.transactionHash.s = HPaid2
    /\ inflight[s].res.status = 200
    /\ inflight[s].res.totalPurchased = PIXELS_PER_PURCHASE
    /\ PurchasedBalance(inflight[s].body.user.s) = PIXELS_PER_PURCHASE

\* The handler of the request in slot s got as far as verifying the payment.
VerificationRan(s) ==
  /\ inflight[s].body.json
  /\ ~Falsy(inflight[s].body.user)
  /\ ~Falsy(inflight[s].body.transactionHash)

\* Why the purchase answered in slot s was refused: the chain RPC failed, or
\* one of the four defects of the payment.
RefusalCause(s) ==
  LET hash == inflight[s].body.transactionHash.s IN
  CASE caught[s] = "HttpRequestError" -> "external service"
    [] caught[s] \in {"TransactionNotFoundError", "TransactionReceiptNotFoundError"} ->
         "not found"
    [] ToLowerCase(ChainTransaction(hash).to) # <<"0", "x", "a", "b", "c", "1">> ->
         "wrong recipient"
    [] ChainTransaction(hash).value # PRICE_PER_PURCHASE -> "wrong amount"
    [] ChainReceipt(hash).status # "success" -> "execution failed"
    [] OTHER -> "none"

(* C11. Two purchases refused for different causes (transaction not found, *)
(* wrong recipient, wrong amount, execution failed, chain RPC failure) are *)
(* answered with different error reasons.                                  *)
C11_CausesDistinguished ==
  \A s1, s2 \in Slots :
    ( /\ PurchaseDone(s1) /\ PurchaseDone(s2)
      /\ VerificationRan(s1) /\ VerificationRan(s2)
      /\ inflight[s1].res.status # 200
      /\ inflight[s2].res.status # 200
      /\ RefusalCause(s1) # RefusalCause(s2) )
    => inflight[s1].res.error # inflight[s2].res.error

(* C12. A proof re-submitted while the earlier request for it is awaiting  *)
(* the chain RPC is credited once, in whatever order the requests resume:  *)
(* when the re-submission and another request of the same user for the     *)
(* same transactionHash, not yet credited when the re-submission arrived,  *)
(* have both been answered with success, the balance is at most            *)
(* PIXELS_PER_PURCHASE above what it was when the re-submission arrived.   *)
C12_RetryCreditedOnce ==
  \A s1, s2 \in Slots :
    ( /\ s1 # s2
      /\ PurchaseDone(s1) /\ PurchaseDone(s2)
      /\ inflight[s1].res.status = 200
      /\ inflight[s2].res.status = 200
      /\ inflight[s1].body.user = inflight[s2].body.user
      /\ inflight[s1].body.transactionHash = inflight[s2].body.transactionHash
      /\ inflight[s1].seen # NoSeen
      /\ inflight[s1].seen.avail < inflight[s2].res.totalPurchased )
    => PurchasedBalance(inflight[s1].body.user.s)
         <= inflight[s1].seen.avail + PIXELS_PER_PURCHASE

(* C13. Day rollover needs no timer.  Off-chain, a user who has placed     *)
(* nothing yet today has DAILY_PIXEL_LIMIT units available whatever was    *)
(* placed the day before, and the first valid POST /canvas of the day is   *)
(* accepted.  On-chain, getDailyPixels returns DAILY_PIXEL_LIMIT whenever  *)
(* block.timestamp / 1 days exceeds userLastResetDay, and the usePixel     *)
(* made then returns true.                                                 *)
C13_FreshAllotment ==
  /\ \A u \in Users :
       Lookup(placed, <<u, ToDateString(now)>>) = 0 =>
         AvailablePixels(Lookup(userDailyPixels, DailyKey(u, ToDateString(now))))
           >= DAILY_PIXEL_LIMIT
  /\ \A a \in Addresses :
       BlockDay(blockTimestamp) > castCanvas.userLastResetDay[a] =>
         GetDailyPixels(castCanvas, blockTimestamp, a) = DAILY_PIXEL_LIMIT

C13_FirstAccessServed ==
  /\ \A s \in Slots :
       ( /\ CanvasAnswered(s)
         /\ ValidPlacement(inflight[s].body)
         /\ Lookup(placed, <<inflight[s].body.user.s, ToDateString(now)>>) = 0 )
       => inflight'[s].res.status = 200
  /\ \A a \in Addresses :
       ( /\ lastCall'.fn = "usePixel"
         /\ lastCall'.ok
         /\ lastCall'.user = a
         /\ castCanvas' # castCanvas
         /\ BlockDay(blockTimestamp) > castCanvas.userLastResetDay[a] )
       => /\ lastCall'.ret
          /\ castCanvas'.userLastResetDay[a] = BlockDay(blockTimestamp)
          /\ castCanvas'.userDailyPixels[a] = DAILY_PIXEL_LIMIT - 1

C13_DayRollover == [](C13_FreshAllotment) /\ [][C13_FirstAccessServed]_vars

\* The user exhausted the allotment yesterday, on the server and on the
\* chain, and the first placement of today has been accepted by both.
C13_Witness ==
  /\ ToDateString(now) >= 1
  /\ Lookup(placed, <<U1, ToDateString(now) - 1>>) = DAILY_PIXEL_LIMIT
  /\ Lookup(placed, <<U1, ToDateString(now)>>) = 1
  /\ CanvasDone(1)
  /\ inflight[1].res.status = 200
  /\ inflight[1].res.remainingPixels = DAILY_PIXEL_LIMIT - 1
  /\ ToDateString(inflight[1].res.pixel[1].timestamp) = ToDateString(now)
  /\ lastCall = Call("usePixel", Owner, Alice, 0, 0, TRUE, TRUE)
  /\ castCanvas.userPurchasedPixels[Alice] = 0
  /\ castCanvas.userLastResetDay[Alice] = BlockDay(blockTimestamp)
  /\ castCanvas.userDailyPixels[Alice] = DAILY_PIXEL_LIMIT - 1

\* This step is a call of the contract (a call that repeats the last one
\* and changes nothing is no step).
Called(fn) ==
  /\ lastCall'.fn = fn
  /\ <<castCanvas, lastCall>>' # <<castCanvas, lastCall>>

\* This step is a call of usePixel that went through.
UsePixelCalled == Called("usePixel") /\ lastCall'.ok

(* C14. usePixel(user) spends the daily allotment first: while             *)
(* getDailyPixels(user) > 0 it returns true, lowers the daily count by one *)
(* and leaves every purchased balance; when the daily count is 0 and the   *)
(* purchased balance is positive it returns true and lowers only that      *)
(* balance, by one; when both are 0 it returns false and changes no        *)
(* storage.                                                                *)
C14_DailyBeforePurchased ==
  [][UsePixelCalled =>
       LET a == lastCall'.user
           daily == GetDailyPixels(castCanvas, blockTimestamp, a)
           purchased == castCanvas.userPurchasedPixels[a]
       IN
       IF daily > 0
       THEN /\ lastCall'.ret
            /\ GetDailyPixels(castCanvas', blockTimestamp', a) = daily - 1
            /\ castCanvas'.userPurchasedPixels = castCanvas.userPurchasedPixels
       ELSE IF purchased > 0
       THEN /\ lastCall'.ret
            /\ castCanvas'.userPurchasedPixels =
                 [castCanvas.userPurchasedPixels EXCEPT ![a] = purchased - 1]
            /\ castCanvas'.userDailyPixels = castCanvas.userDailyPixels
            /\ castCanvas'.userLastResetDay = castCanvas.userLastResetDay
            /\ GetDailyPixels(castCanvas', blockTimestamp', a) = 0
       ELSE /\ ~lastCall'.ret
            /\ castCanvas' = castCanvas]_vars

\* The day's allotment is spent and usePixel has taken one pixel of a
\* purchase.
C14_Witness ==
  /\ lastCall = Call("usePixel", Owner, Alice, 0, 0, TRUE, TRUE)
  /\ GetDailyPixels(castCanvas, blockTimestamp, Alice) = 0
  /\ castCanvas.userPurchasedPixels[Alice] = PIXELS_PER_PURCHASE - 1
  /\ castCanvas.balance = PRICE_PER_PURCHASE

(* C15. getAvailablePixels(user) is getDailyPixels(user) plus the user's   *)
(* purchased balance in every state; a usePixel that returns true lowers   *)
(* it by exactly one, and a usePixel that returns false finds and leaves   *)
(* it at 0.                                                                *)
C15_AvailableIsSum ==
  \A a \in Addresses :
    GetAvailablePixels(castCanvas, blockTimestamp, a) =
      GetDailyPixels(castCanvas, blockTimestamp, a) + castCanvas.userPurchasedPixels[a]

C15_ConsumeTakesOne ==
  UsePixelCalled =>
    LET a == lastCall'.user
        before == GetAvailablePixels(castCanvas, blockTimestamp, a)
        after == GetAvailablePixels(castCanvas', blockTimestamp', a)
    IN IF lastCall'.ret
       THEN after = before - 1
       ELSE before = 0 /\ after = 0

C15_AvailableAccounted == [](C15_AvailableIsSum) /\ [][C15_ConsumeTakesOne]_vars

\* The allotment of the day and a whole purchase are spent, and a further
\* usePixel has returned false.
C15_Witness ==
  /\ lastCall = Call("usePixel", Owner, Alice, 0, 0, TRUE, FALSE)
  /\ GetAvailablePixels(castCanvas, blockTimestamp, Alice) = 0
  /\ castCanvas.balance = PRICE_PER_PURCHASE
  /\ castCanvas.userLastResetDay[Alice] = BlockDay(blockTimestamp)

(* C16. purchasePixels() goes through only with msg.value equal to         *)
(* PRICE_PER_PURCHASE; it then adds exactly PIXELS_PER_PURCHASE to the     *)
(* sender's purchased balance, touches no other balance and no daily       *)
(* count, and keeps the ether; with any other value it reverts and the     *)
(* storage and the ether stay as they were.                                *)
C16_ExactPrice ==
  [][Called("purchasePixels") =>
       IF lastCall'.value = PRICE_PER_PURCHASE
       THEN /\ lastCall'.ok
            /\ castCanvas' =
                 [castCanvas EXCEPT
                    !.userPurchasedPixels =
                       [a \in Addresses |->
                          IF a = lastCall'.sender
                          THEN castCanvas.userPurchasedPixels[a] + PIXELS_PER_PURCHASE
                          ELSE castCanvas.userPurchasedPixels[a]],
                    !.balance = castCanvas.balance + PRICE_PER_PURCHASE]
       ELSE /\ ~lastCall'.ok
            /\ castCanvas' = castCanvas]_vars

\* The owner and the user have each bought pixels, the user last.
C16_Witness ==
  /\ lastCall = Call("purchasePixels", Alice, ZeroAddress, PRICE_PER_PURCHASE, 0, TRUE, FALSE)
  /\ castCanvas.userPurchasedPixels[Alice] = PIXELS_PER_PURCHASE
  /\ castCanvas.userPurchasedPixels[Owner] = PIXELS_PER_PURCHASE
  /\ castCanvas.userPurchasedPixels[ZeroAddress] = 0
  /\ castCanvas.balance = PRICE_PER_PURCHASE

\* The functions the contract declares onlyOwner.
OwnerOnly ==
  {"usePixel", "resetDailyPixels", "addPixelsToUser", "withdraw", "emergencyWithdraw"}

(* C17. usePixel, resetDailyPixels, addPixelsToUser, withdraw and          *)
(* emergencyWithdraw called by another account than the owner revert and   *)
(* change neither the storage nor the contract's ether; the contract's     *)
(* ether decreases only in a withdraw or emergencyWithdraw of the owner    *)
(* that goes through.                                                      *)
C17_OwnerOnly ==
  [][/\ \A fn \in OwnerOnly :
          (Called(fn) /\ lastCall'.sender # Owner) =>
            /\ ~lastCall'.ok
            /\ castCanvas' = castCanvas
     /\ castCanvas'.balance < castCanvas.balance =>
          /\ lastCall'.fn \in {"withdraw", "emergencyWithdraw"}
          /\ lastCall'.sender = Owner
          /\ lastCall'.ok]_vars

\* The user has paid for pixels and then called withdraw, which reverted
\* and left the ether and the balances in place.
C17_Witness ==
  /\ lastCall = Call("withdraw", Alice, ZeroAddress, 0, 0, FALSE, FALSE)
  /\ castCanvas.balance = PRICE_PER_PURCHASE
  /\ castCanvas.userPurchasedPixels[Alice] = PIXELS_PER_PURCHASE

(* C18. Quotas stay in range.  Off-chain every per-user per-day counter    *)
(* of placed pixels, and so the daily remainder, is within                 *)
(* [0, DAILY_PIXEL_LIMIT]; on-chain userDailyPixels[user] and              *)
(* getDailyPixels(user) are within [0, DAILY_PIXEL_LIMIT]; no purchased    *)
(* balance, of the server or of the contract, is negative.                 *)
C18_QuotasInRange ==
  /\ \A k \in DOMAIN userDailyPixels :
       /\ 0 <= userDailyPixels[k] /\ userDailyPixels[k] <= DAILY_PIXEL_LIMIT
       /\ 0 <= DailyRemaining(k[1], k[2])
       /\ DailyRemaining(k[1], k[2]) <= DAILY_PIXEL_LIMIT
  /\ \A k \in DOMAIN userPurchasedPixels : userPurchasedPixels[k] >= 0
  /\ \A a \in Addresses :
       /\ 0 <= castCanvas.userDailyPixels[a]
       /\ castCanvas.userDailyPixels[a] <= DAILY_PIXEL_LIMIT
       /\ 0 <= GetDailyPixels(castCanvas, blockTimestamp, a)
       /\ GetDailyPixels(castCanvas, blockTimestamp, a) <= DAILY_PIXEL_LIMIT
       /\ castCanvas.userPurchasedPixels[a] >= 0

\* Both counters of the user are at their ends: the server has counted
\* DAILY_PIXEL_LIMIT placements today, and the contract has nothing left of
\* the day nor of the purchase.
C18_Witness ==
  /\ Lookup(userDailyPixels, DailyKey(U1, ToDateString(now))) = DAILY_PIXEL_LIMIT
  /\ PurchasedBalance(U1) = PIXELS_PER_PURCHASE
  /\ castCanvas.userLastResetDay[Alice] = BlockDay(blockTimestamp)
  /\ castCanvas.userDailyPixels[Alice] = 0
  /\ castCanvas.userPurchasedPixels[Alice] = 0
  /\ lastCall = Call("usePixel", Owner, Alice, 0, 0, TRUE, FALSE)

(* C19. userLastResetDay[user] never decreases, whatever is called and as  *)
(* block.timestamp advances, and never exceeds the current day             *)
(* block.timestamp / 1 days.                                               *)
C19_NotAfterToday ==
  \A a \in Addresses : castCanvas.userLastResetDay[a] <= BlockDay(blockTimestamp)

C19_NeverDecreases ==
  \A a \in Addresses : castCanvas'.userLastResetDay[a] >= castCanvas.userLastResetDay[a]

C19_ResetDayMonotone == [](C19_NotAfterToday) /\ [][C19_NeverDecreases]_vars

\* The user was reset on an earlier day, has bought pixels, and has been
\* reset again today.
C19_Witness ==
  /\ lastCall = Call("resetDailyPixels", Owner, Alice, 0, 0, TRUE, FALSE)
  /\ BlockDay(blockTimestamp) > 1
  /\ castCanvas.userLastResetDay[Alice] = BlockDay(blockTimestamp)
  /\ castCanvas.userDailyPixels[Alice] = DAILY_PIXEL_LIMIT
  /\ castCanvas.userPurchasedPixels[Alice] = PIXELS_PER_PURCHASE - 1

(* C20. The server and the contract, driven by the same placements,        *)
(* purchases and day advances of a user, keep one balance: after every     *)
(* step the units the placement handler computes as available are the      *)
(* getAvailablePixels of the contract, and a placement is accepted by the  *)
(* handler exactly when the usePixel made for it returns true.             *)
C20_SameAvailable ==
  AvailablePixels(Lookup(userDailyPixels, DailyKey(U1, ToDateString(now))))
    = GetAvailablePixels(castCanvas, blockTimestamp, Alice)

C20_SameVerdict ==
  (CanvasAnswered(1) /\ ValidPlacement(inflight[1].body)) =>
    /\ lastCall'.fn = "usePixel"
    /\ (inflight'[1].res.status = 200) <=> lastCall'.ret

C20_OneBalance == [](C20_SameAvailable) /\ [][C20_SameVerdict]_vars

---------------------------------------------------------------------------
\* The contract holds nothing for address a: its three entries are zero.
NoRecord(a) ==
  /\ castCanvas.userPurchasedPixels[a] = 0
  /\ castCanvas.userDailyPixels[a] = 0
  /\ castCanvas.userLastResetDay[a] = 0

\* The address whose entries a call may write.
Target(call) == IF call.fn = "purchasePixels" THEN call.sender ELSE call.user

\* The entries of address a are left as they were by this step.
SameRecord(a) ==
  /\ castCanvas'.userPurchasedPixels[a] = castCanvas.userPurchasedPixels[a]
  /\ castCanvas'.userDailyPixels[a] = castCanvas.userDailyPixels[a]
  /\ castCanvas'.userLastResetDay[a] = castCanvas.userLastResetDay[a]

\* The server holds no daily counter of user u, of any day.
NeverSeen(u) == \A k \in DOMAIN userDailyPixels : k[1] # u

(* C21. User records are created lazily.  On the chain an address is       *)
(* touched only by the calls that name it, and an address that holds no    *)
(* record has getDailyPixels = DAILY_PIXEL_LIMIT and no purchased pixels   *)
(* at every block timestamp.  On the server the first accepted placement   *)
(* of a user it has never seen reports DAILY_PIXEL_LIMIT - 1 remaining.    *)
C21_LazyCreation ==
  /\ [](\A a \in Addresses :
          NoRecord(a) =>
            /\ GetDailyPixels(castCanvas, blockTimestamp, a) = DAILY_PIXEL_LIMIT
            /\ GetAvailablePixels(castCanvas, blockTimestamp, a) = DAILY_PIXEL_LIMIT)
  /\ [][ /\ \A a \in Addresses : a # Target(lastCall') => SameRecord(a)
         /\ \A s \in Slots :
              ( /\ CanvasAnswered(s)
                /\ inflight'[s].res.status = 200
                /\ NeverSeen(inflight[s].body.user.s) )
              => inflight'[s].res.remainingPixels = DAILY_PIXEL_LIMIT - 1 ]_vars

\* A user first seen on the second day has placed a pixel and been told of
\* DAILY_PIXEL_LIMIT - 1 remaining, while the owner's address, never named
\* by a call, holds no record on the chain on a later day.
C21_Witness ==
  /\ CanvasDone(1)
  /\ inflight[1].res.status = 200
  /\ inflight[1].res.remainingPixels = DAILY_PIXEL_LIMIT - 1
  /\ ToDateString(now) >= 1
  /\ DOMAIN userDailyPixels = {DailyKey(U1, ToDateString(now))}
  /\ NoRecord(Owner)
  /\ ~NoRecord(Alice)
  /\ BlockDay(blockTimestamp) > 1

---------------------------------------------------------------------------
(* C22. The daily quota of a user is Stale while userLastResetDay is       *)
(* before today and Fresh once it is today.  A usePixel or a               *)
(* resetDailyPixels by the owner on a Stale user leaves userLastResetDay   *)
(* at today, with the allotment granted anew (less the unit used); and     *)
(* while the user is Fresh no call within the same day raises the daily    *)
(* remaining count: a resetDailyPixels after a usePixel of the same day    *)
(* restores nothing.                                                       *)
C22_StaleFresh ==
  [][\A a \in Addresses :
       LET today == BlockDay(blockTimestamp)
           stale == castCanvas.userLastResetDay[a] < today
           fresh == castCanvas.userLastResetDay[a] = today
           owner == lastCall'.ok /\ lastCall'.user = a
       IN
       /\ (Called("usePixel") /\ owner /\ stale)
            => /\ castCanvas'.userLastResetDay[a] = today
               /\ castCanvas'.userDailyPixels[a] = DAILY_PIXEL_LIMIT - 1
       /\ (Called("resetDailyPixels") /\ owner /\ stale)
            => /\ castCanvas'.userLastResetDay[a] = today
               /\ castCanvas'.userDailyPixels[a] = DAILY_PIXEL_LIMIT
       /\ (fresh /\ BlockDay(blockTimestamp') = today)
            => /\ castCanvas'.userLastResetDay[a] = today
               /\ GetDailyPixels(castCanvas', blockTimestamp', a)
                    <= GetDailyPixels(castCanvas, blockTimestamp, a)
    ]_vars

\* On a later day the owner has reset a user who had used a pixel that day,
\* and the used unit is still missing.
C22_Witness ==
  /\ lastCall.fn = "resetDailyPixels"
  /\ lastCall.ok
  /\ lastCall.user = Alice
  /\ BlockDay(blockTimestamp) > 1
  /\ castCanvas.userLastResetDay[Alice] = BlockDay(blockTimestamp)
  /\ castCanvas.userDailyPixels[Alice] = DAILY_PIXEL_LIMIT - 1

---------------------------------------------------------------------------
\* Units of the day's allotment the contract's storage leaves address a.
DailyLeft(a) ==
  IF castCanvas.userLastResetDay[a] < BlockDay(blockTimestamp)
  THEN DAILY_PIXEL_LIMIT
  ELSE castCanvas.userDailyPixels[a]

\* No purchased balance of the contract changes in this step.
SamePurchased ==
  \A a \in Addresses :
    castCanvas'.userPurchasedPixels[a] = castCanvas.userPurchasedPixels[a]

(* C23. Purchased pixels carry over.  A day rollover, a resetDailyPixels   *)
(* and a consume served from the daily allotment leave every purchased     *)
(* balance as it was, in the contract (userPurchasedPixels) and on the     *)
(* server (the '<user>-purchased' entries), where a new day and a          *)
(* placement change no entry.                                              *)
C23_PurchasedCarriesOver ==
  [][ /\ BlockDay(blockTimestamp') # BlockDay(blockTimestamp) => SamePurchased
      /\ Called("resetDailyPixels") => SamePurchased
      /\ ( /\ UsePixelCalled
           /\ DailyLeft(lastCall'.user) > 0 ) => SamePurchased
      /\ ToDateString(now') # ToDateString(now)
           => userPurchasedPixels' = userPurchasedPixels
      /\ \A s \in Slots :
           CanvasAnswered(s) => userPurchasedPixels' = userPurchasedPixels
    ]_vars

\* A user holding a purchase on both sides has placed pixels on two days,
\* the last one served from the day's allotment of the contract.
C23_Witness ==
  /\ castCanvas.userPurchasedPixels[Alice] = PIXELS_PER_PURCHASE
  /\ PurchasedBalance(U1) = PIXELS_PER_PURCHASE
  /\ lastCall.fn = "usePixel"
  /\ lastCall.ret
  /\ castCanvas.userLastResetDay[Alice] = BlockDay(blockTimestamp)
  /\ castCanvas.userDailyPixels[Alice] < DAILY_PIXEL_LIMIT
  /\ Cardinality(DOMAIN placed) = 2

---------------------------------------------------------------------------
(* C24. The payable purchase path is reentrancy-safe.  purchasePixels is   *)
(* never waiting for a call it made while control is outside the contract, *)
(* so that no call can enter it while it executes; and a purchasePixels    *)
(* that goes through, also one made from within a withdrawal's transfer,   *)
(* has credited PIXELS_PER_PURCHASE to its sender and taken the payment    *)
(* in the step it is entered, with no call of its own left waiting.        *)
C24_ReentrancySafe ==
  /\ [](\A i \in 1..Len(frames) : frames[i].fn # "purchasePixels")
  /\ [][(Called("purchasePixels") /\ lastCall'.ok)
          => /\ castCanvas'.userPurchasedPixels[lastCall'.sender]
                  = castCanvas.userPurchasedPixels[lastCall'.sender]
                      + PIXELS_PER_PURCHASE
             /\ castCanvas'.balance = castCanvas.balance + PRICE_PER_PURCHASE
             /\ frames' = frames]_vars

\* The recipient of a withdrawal's transfer has called purchasePixels
\* before returning, and the purchase went through.
C24_Witness ==
  /\ frames # <<>>
  /\ frames[Len(frames)].fn = "withdraw"
  /\ lastCall.fn = "purchasePixels"
  /\ lastCall.ok
  /\ castCanvas.userPurchasedPixels[lastCall.sender] = PIXELS_PER_PURCHASE
  /\ castCanvas.balance = PRICE_PER_PURCHASE

---------------------------------------------------------------------------
\* A GET /canvas is served in this step by slot s.
CanvasGot(s) == inflight[s] = Idle /\ inflight'[s].route = "canvas-get"

\* A GET /canvas/user is served in this step by slot s.
UserGot(s) == inflight[s] = Idle /\ inflight'[s].route = "user-get"

(* C25. GET /canvas is read-only: serving it changes neither the pixel     *)
(* list nor a quota counter nor a purchased balance, and it answers with   *)
(* the pixel list as it is then, with totalPixels the number of pixels in  *)
(* that list and canvasSize = CANVAS_SIZE.                                 *)
C25_CanvasReadOnly ==
  [][\A s \in Slots :
       CanvasGot(s) =>
         /\ UNCHANGED <<canvasPixels, userDailyPixels, userPurchasedPixels>>
         /\ inflight'[s].res.status = 200
         /\ inflight'[s].res.pixels = canvasPixels
         /\ inflight'[s].res.totalPixels = Len(inflight'[s].res.pixels)
         /\ inflight'[s].res.canvasSize = CANVAS_SIZE
    ]_vars

\* A GET /canvas has answered with the two pixels the list holds.
C25_Witness ==
  /\ inflight[1].route = "canvas-get"
  /\ inflight[1].res.totalPixels = 2
  /\ inflight[1].res.pixels = canvasPixels
  /\ \E i, j \in 1..Len(canvasPixels) : canvasPixels[i].x # canvasPixels[j].x

---------------------------------------------------------------------------
\* Slot s holds the answer 200 to a purchase of user u.
Purchased200(s, u) ==
  /\ PurchaseDone(s)
  /\ inflight[s].res.status = 200
  /\ inflight[s].body.user.s = u

\* Credits made to user u, over all transaction hashes.
CreditsOf(u) ==
  LET RECURSIVE Sum(_)
      Sum(K) == IF K = {} THEN 0
                ELSE LET k == CHOOSE j \in K : TRUE
                     IN Len(credits[k]) + Sum(K \ {k})
  IN Sum({k \in DOMAIN credits : k[1] = u})

(* C26. Two purchases of one user with two different valid proofs, served  *)
(* concurrently, are both credited with no lost update.  A purchase whose  *)
(* payment verifies and whose lookups did not fail is answered 200; every  *)
(* credit raises the balance it finds by exactly PIXELS_PER_PURCHASE and   *)
(* reports the result; the balance of a user is PIXELS_PER_PURCHASE times  *)
(* the credits made to the user, whatever the interleaving; and two        *)
(* answers held together never report the same total.                      *)
C26_BothCredited ==
  /\ [](\A u \in Users : PurchasedBalance(u) = PIXELS_PER_PURCHASE * CreditsOf(u))
  /\ [](\A s1 \in Slots : \A s2 \in (s1 + 1)..MaxInFlight :
          ( /\ PurchaseDone(s1) /\ PurchaseDone(s2)
            /\ inflight[s1].res.status = 200
            /\ inflight[s2].res.status = 200
            /\ inflight[s1].body.user = inflight[s2].body.user )
          => inflight[s1].res.totalPurchased # inflight[s2].res.totalPurchased)
  /\ [][\A s \in Slots :
          PurchaseAnswered(s) =>
            LET b == inflight[s].body
                key == PurchasedKey(b.user.s)
            IN
            /\ ( /\ b.json
                 /\ ~Falsy(b.user) /\ ~Falsy(b.transactionHash)
                 /\ VerifiedPayment(b.transactionHash.s)
                 /\ caught'[s] = "" )
                 => inflight'[s].res.status = 200
            /\ inflight'[s].res.status = 200
                 => /\ Lookup(userPurchasedPixels', key)
                         = Lookup(userPurchasedPixels, key) + PIXELS_PER_PURCHASE
                    /\ inflight'[s].res.totalPurchased = Lookup(userPurchasedPixels', key)
       ]_vars

\* The answers to two purchases of one user, one for each paid transaction,
\* are held together, and the balance holds both credits.
C26_Witness ==
  /\ Purchased200(1, U1)
  /\ Purchased200(2, U1)
  /\ inflight[1].body.transactionHash.s = HPaid
  /\ inflight[2].body.transactionHash.s = HPaid2
  /\ inflight[1].res.totalPurchased = 2 * PIXELS_PER_PURCHASE
  /\ inflight[2].res.totalPurchased = PIXELS_PER_PURCHASE
  /\ PurchasedBalance(U1) = 2 * PIXELS_PER_PURCHASE

---------------------------------------------------------------------------
(* C27. GET /canvas/user?address=U is consistent with the placements: it   *)
(* answers with usedPixels the number of U's successful placements of the  *)
(* day and with remainingPixels what U's last successful placement of the  *)
(* day reported, which is DAILY_PIXEL_LIMIT less that number, and          *)
(* DAILY_PIXEL_LIMIT when U has placed nothing that day.                   *)
C27_UserQuotaConsistent ==
  [][\A s \in Slots :
       (UserGot(s) /\ inflight'[s].res.status = 200) =>
         LET key == DailyKey(inflight'[s].body.user.s, ToDateString(now)) IN
         /\ inflight'[s].res.usedPixels = Lookup(placed, key)
         /\ inflight'[s].res.remainingPixels = DAILY_PIXEL_LIMIT - Lookup(placed, key)
         /\ inflight'[s].res.dailyLimit = DAILY_PIXEL_LIMIT
    ]_vars

---------------------------------------------------------------------------
\* The pixels of a list that are not at (x, y), in the order of the list.
Elsewhere(pixels, x, y) ==
  SelectSeq(pixels, LAMBDA pixel : ~(pixel.x = x /\ pixel.y = y))

(* C28. A successful placement at (x, y), the coordinates its pixel is     *)
(* stored at, leaves every stored pixel at any other coordinate as it was  *)
(* (same color, owner and timestamp), and changes the number of stored     *)
(* pixels by +1 when (x, y) was empty and by 0 when it was occupied.       *)
C28_PlacementFrame ==
  [][\A s \in Slots :
       (CanvasAnswered(s) /\ inflight'[s].res.status = 200) =>
         LET pixel == inflight'[s].res.pixel[1]
             occupied == \E i \in 1..Len(canvasPixels) :
                           /\ canvasPixels[i].x = pixel.x
                           /\ canvasPixels[i].y = pixel.y
         IN /\ Elsewhere(canvasPixels', pixel.x, pixel.y)
                 = Elsewhere(canvasPixels, pixel.x, pixel.y)
            /\ Len(canvasPixels') = Len(canvasPixels) + (IF occupied THEN 0 ELSE 1)
    ]_vars

---------------------------------------------------------------------------
\* The entries of map m that are not of user u are left as they were.
OthersKept(m, u) ==
  \A k \in DOMAIN m \cup DOMAIN m' : k[1] # u => Lookup(m', k) = Lookup(m, k)

(* C29. Quota is isolated per user.  Serving a placement or a purchase of  *)
(* user A changes no daily count and no purchased balance of another user, *)
(* and an accepted placement over a pixel that another user owns takes one *)
(* unit from A's day.                                                      *)
C29_QuotaIsolated ==
  [][\A s \in Slots :
       (CanvasAnswered(s) \/ PurchaseAnswered(s)) =>
         LET a == inflight[s].body.user.s
             pixel == inflight'[s].res.pixel[1]
             today == ToDateString(now)
         IN
         /\ OthersKept(userDailyPixels, a)
         /\ OthersKept(userPurchasedPixels, a)
         /\ ( /\ CanvasAnswered(s)
              /\ inflight'[s].res.status = 200
              /\ \E i \in 1..Len(canvasPixels) :
                   /\ canvasPixels[i].x = pixel.x
                   /\ canvasPixels[i].y = pixel.y
                   /\ canvasPixels[i].user # a )
              => /\ Lookup(userDailyPixels', DailyKey(a, today))
                      = Lookup(userDailyPixels, DailyKey(a, today)) + 1
                 /\ PurchasedBalance(a)' = PurchasedBalance(a)
    ]_vars

\* The second user has placed a pixel over the first user's, who holds a
\* purchase: each has one placement counted and the balances are apart.
C29_Witness ==
  /\ CanvasDone(1)
  /\ inflight[1].res.status = 200
  /\ inflight[1].body.user.s = U2
  /\ Len(canvasPixels) = 1
  /\ canvasPixels[1].user = U2
  /\ Lookup(userDailyPixels, DailyKey(U1, ToDateString(now))) = 1
  /\ Lookup(userDailyPixels, DailyKey(U2, ToDateString(now))) = 1
  /\ PurchasedBalance(U1) = PIXELS_PER_PURCHASE
  /\ PurchasedBalance(U2) = 0

---------------------------------------------------------------------------
(* C30. Every pixel of the list has whole coordinates with                 *)
(* 0 <= x < CANVAS_SIZE and 0 <= y < CANVAS_SIZE, and a color that is '#'  *)
(* and six hex digits.                                                     *)
C30_StoredPixelsValid ==
  \A i \in 1..Len(canvasPixels) :
    /\ canvasPixels[i].x % Half = 0
    /\ canvasPixels[i].y % Half = 0
    /\ InCanvas(canvasPixels[i].x)
    /\ InCanvas(canvasPixels[i].y)
    /\ SixHexDigits(canvasPixels[i].color)

\* A placement sent with fractional coordinates next to the upper edge has
\* been accepted and is stored in the last column.
C30_Witness ==
  /\ CanvasDone(1)
  /\ inflight[1].res.status = 200
  /\ inflight[1].body.x.n = CANVAS_SIZE * Half - 1
  /\ inflight[1].body.y.n = 1
  /\ \E i \in 1..Len(canvasPixels) :
       /\ canvasPixels[i].x = (CANVAS_SIZE - 1) * Half
       /\ canvasPixels[i].y = 0

---------------------------------------------------------------------------
\* The run of function fn in slot a returns in this step.
Returns(a, fn) ==
  /\ calls[a].pc # "done"
  /\ calls'[a].fn = fn
  /\ calls'[a].pc = "done"

(* C31. checkAuthentication: when the context of the check carries a user  *)
(* fid, the check ends with status 'authenticated' and with user made      *)
(* from that context, whether QuickAuth gave a valid token, an invalid     *)
(* one or none; when the context carries no fid, it ends with status       *)
(* 'unauthenticated'.                                                      *)
C31_CheckByContext ==
  [][\A a \in CallSlots :
       Returns(a, "checkAuthentication") =>
         IF calls'[a].contextUser.fid > 0
         THEN /\ auth'.status = "authenticated"
              /\ auth'.user = <<calls'[a].contextUser>>
         ELSE auth'.status = "unauthenticated"
    ]_vars

\* A check whose token the server refused has ended, and the session is
\* authenticated with the user of the context.
C31_Witness ==
  \E a \in CallSlots :
    /\ calls[a].fn = "checkAuthentication"
    /\ calls[a].pc = "done"
    /\ calls[a].token = "jwt"
    /\ ~calls[a].isValid
    /\ auth.status = "authenticated"
    /\ auth.user = <<ContextUser(1, "alice")>>

---------------------------------------------------------------------------
(* C32. signIn returns true, and leaves status 'authenticated', exactly    *)
(* when QuickAuth gave a token, the server validated it and the context    *)
(* of the call has a user fid; in every other case it returns false and    *)
(* leaves status 'unauthenticated' or 'error' with an error message.       *)
C32_SignInResult ==
  [][\A a \in CallSlots :
       Returns(a, "signIn") =>
         LET call == calls'[a]
             granted == /\ call.token # ""
                        /\ call.isValid
                        /\ call.contextUser.fid > 0
         IN /\ call.ret.success <=> granted
            /\ auth'.status = "authenticated" <=> granted
            /\ granted => auth'.user = <<call.contextUser>>
            /\ ~granted => /\ auth'.status \in {"unauthenticated", "error"}
                           /\ auth'.error # <<>>
    ]_vars

\* A signIn whose token the server validated has returned true with the
\* session authenticated.
C32_Witness ==
  \E a \in CallSlots :
    /\ calls[a].fn = "signIn"
    /\ calls[a].pc = "done"
    /\ calls[a].ret.success
    /\ calls[a].token = "jwt"
    /\ calls[a].isValid
    /\ auth.status = "authenticated"
    /\ auth.user = <<ContextUser(1, "alice")>>
    /\ auth.error = <<>>

---------------------------------------------------------------------------
(* C33. The user data is cleaned up when the session is not authenticated: *)
(* whenever status is 'unauthenticated' user is null, and whenever status  *)
(* is 'authenticated' user is not null.                                    *)
C33_UserCleanedUp ==
  /\ auth.status = "unauthenticated" => auth.user = <<>>
  /\ auth.status = "authenticated" => auth.user # <<>>

---------------------------------------------------------------------------
(* C34. authenticate with requireQuickAuth = true returns success only     *)
(* when a QuickAuth token was obtained and the server validated it, and    *)
(* every such result has usedQuickAuth true; with requireQuickAuth = false *)
(* and allowContextOnly = false it does not succeed without a validated    *)
(* token either.                                                           *)
C34_QuickAuthRequired ==
  [][\A a \in CallSlots :
       (Returns(a, "authenticate") /\ calls'[a].ret.success) =>
         LET call == calls'[a]
             validated == call.token # "" /\ call.isValid
         IN /\ call.config.requireQuickAuth
                 => validated /\ call.ret.usedQuickAuth
            /\ (~call.config.requireQuickAuth /\ ~call.config.allowContextOnly)
                 => validated /\ call.ret.usedQuickAuth
    ]_vars

\* An authenticate that requires QuickAuth has succeeded with a validated
\* token, and one that allows the context alone has succeeded without.
C34_Witness ==
  /\ calls[1].fn = "authenticate"
  /\ calls[1].pc = "done"
  /\ calls[1].config = AuthConfig(TRUE, FALSE)
  /\ calls[1].ret = Success(ContextUser(1, "alice"), TRUE)
  /\ calls[1].token = "jwt"
  /\ calls[1].isValid
  /\ calls[2].fn = "authenticate"
  /\ calls[2].pc = "done"
  /\ calls[2].config = AuthConfig(FALSE, TRUE)
  /\ calls[2].ret = Success(ContextUser(1, "alice"), FALSE)

====
